---- MODULE Spec2Model ----
(***************************************************************************)
(* OSINT MCP server: the tool catalog, the dispatcher (handleToolCall),    *)
(* the call-tool / list-tools request handlers and the HTTP API client     *)
(* (OsintApiClient), in the v2.0.0 revision (index.ts + api-client.ts) and *)
(* the constructor / get / post of the v1.0.0 client revision.             *)
(*                                                                         *)
(* Text is modelled as a sequence of lexical atoms (a rope): structural    *)
(* characters, digits, whitespace and newlines are atoms of their own,     *)
(* the content of a string literal may be one atom.  Flatten gives the     *)
(* string a rope spells.                                                   *)
(***************************************************************************)
EXTENDS Integers, Sequences, FiniteSets, TLC

VARIABLES
  env,        \* process.env, read once on module load
  proc,       \* the server process: main() and the responses it has written
  apiClient,  \* the OsintApiClient instance of index.ts
  inv,        \* the call-tool invocations, by slot
  listed,     \* the last list-tools response
  lib,        \* an OsintApiClient driven directly through get and post
  other       \* the last reply to a request of any other method

vars == <<env, proc, apiClient, inv, listed, lib, other>>

-----------------------------------------------------------------------------
(* JavaScript values *)

Undefined == [t |-> "undefined"]
Null == [t |-> "null"]
Bool(b) == [t |-> "boolean", b |-> b]
Num(n) == [t |-> "number", n |-> n]
Str(s) == [t |-> "string", s |-> s]
Arr(a) == [t |-> "array", a |-> a]
Obj(o) == [t |-> "object", o |-> o]
None == [t |-> "none"]

RECURSIVE Flatten(_)
Flatten(rope) ==
  IF rope = <<>> THEN "" ELSE Head(rope) \o Flatten(Tail(rope))

\* JS truthiness, as used by if (x), x || y and x ? a : b
Truthy(v) ==
  CASE v.t = "undefined" -> FALSE
    [] v.t = "null" -> FALSE
    [] v.t = "boolean" -> v.b
    [] v.t = "number" -> v.n # 0
    [] v.t = "string" -> Flatten(v.s) # ""
    [] OTHER -> TRUE

\* JS String(value) and template-literal interpolation ${value}
RECURSIVE ToStr(_)
RECURSIVE JoinComma(_)
JoinComma(a) ==
  IF a = <<>> THEN ""
  ELSE (IF Head(a).t \in {"undefined", "null"} THEN "" ELSE ToStr(Head(a)))
       \o (IF Len(a) > 1 THEN "," \o JoinComma(Tail(a)) ELSE "")
ToStr(v) ==
  CASE v.t = "undefined" -> "undefined"
    [] v.t = "null" -> "null"
    [] v.t = "boolean" -> (IF v.b THEN "true" ELSE "false")
    [] v.t = "number" -> ToString(v.n)
    [] v.t = "string" -> Flatten(v.s)
    [] v.t = "array" -> JoinComma(v.a)
    [] OTHER -> "[object Object]"

\* property read obj.key on an object value: own entry or undefined
RECURSIVE Lookup(_, _)
Lookup(entries, key) ==
  IF entries = <<>> THEN Undefined
  ELSE IF Head(entries).k = key THEN Head(entries).v
  ELSE Lookup(Tail(entries), key)

HasKey(entries, key) == \E i \in 1..Len(entries) : entries[i].k = key

\* obj[key] = value: replaces in place, else appends (insertion order)
SetKey(entries, key, value) ==
  IF HasKey(entries, key)
  THEN [i \in 1..Len(entries) |->
          IF entries[i].k = key THEN [k |-> key, v |-> value] ELSE entries[i]]
  ELSE Append(entries, [k |-> key, v |-> value])

-----------------------------------------------------------------------------
(* JSON.stringify(value, null, gap) and JSON.parse(text) over ropes *)

Digits == <<"0", "1", "2", "3", "4", "5", "6", "7", "8", "9">>
IsDigit(a) == \E i \in 1..10 : Digits[i] = a
DigitVal(a) == (CHOOSE i \in 1..10 : Digits[i] = a) - 1
IsWs(a) == a \in {" ", "\n", "\t", "\r"}

RECURSIVE NatAtoms(_)
NatAtoms(n) ==
  IF n < 10 THEN <<Digits[n + 1]>>
  ELSE NatAtoms(n \div 10) \o <<Digits[(n % 10) + 1]>>

NumAtoms(n) == IF n < 0 THEN <<"-">> \o NatAtoms(0 - n) ELSE NatAtoms(n)

RECURSIVE Spaces(_)
Spaces(n) == IF n <= 0 THEN <<>> ELSE <<" ">> \o Spaces(n - 1)

\* a quoting that escapes nothing
EscapeAtomsNone(s) == s

\* QuoteJSONString: the quote, the backslash and the newline are escaped
RECURSIVE EscapeAtoms(_)
EscapeAtoms(s) ==
  IF s = <<>> THEN <<>>
  ELSE (CASE Head(s) = "\"" -> <<"\\", "\"">>
          [] Head(s) = "\\" -> <<"\\", "\\">>
          [] Head(s) = "\n" -> <<"\\", "n">>
          [] OTHER -> <<Head(s)>>) \o EscapeAtoms(Tail(s))

Quote(s) == <<"\"">> \o EscapeAtoms(s) \o <<"\"">>

\* a property whose value is undefined is left out of a serialized object
RECURSIVE Defined(_)
Defined(entries) ==
  IF entries = <<>> THEN <<>>
  ELSE (IF Head(entries).v.t = "undefined" THEN <<>> ELSE <<Head(entries)>>)
       \o Defined(Tail(entries))

RECURSIVE Stringify(_, _, _)
RECURSIVE StringifyItems(_, _, _)
RECURSIVE StringifyMembers(_, _, _)
Separator(gap, level) ==
  IF gap = 0 THEN <<>> ELSE <<"\n">> \o Spaces(gap * level)
StringifyItems(a, gap, level) ==
  IF a = <<>> THEN <<>>
  ELSE Separator(gap, level)
       \o (IF Head(a).t = "undefined" THEN <<"null">>
           ELSE Stringify(Head(a), gap, level))
       \o (IF Len(a) > 1 THEN <<",">> ELSE <<>>)
       \o StringifyItems(Tail(a), gap, level)
StringifyMembers(o, gap, level) ==
  IF o = <<>> THEN <<>>
  ELSE Separator(gap, level)
       \o Quote(<<Head(o).k>>) \o <<":">> \o (IF gap = 0 THEN <<>> ELSE <<" ">>)
       \o Stringify(Head(o).v, gap, level)
       \o (IF Len(o) > 1 THEN <<",">> ELSE <<>>)
       \o StringifyMembers(Tail(o), gap, level)
Stringify(v, gap, level) ==
  CASE v.t = "null" -> <<"null">>
    [] v.t = "boolean" -> (IF v.b THEN <<"true">> ELSE <<"false">>)
    [] v.t = "number" -> NumAtoms(v.n)
    [] v.t = "string" -> Quote(v.s)
    [] v.t = "array" ->
         IF v.a = <<>> THEN <<"[", "]">>
         ELSE <<"[">> \o StringifyItems(v.a, gap, level + 1)
              \o Separator(gap, level) \o <<"]">>
    [] v.t = "object" ->
         IF Defined(v.o) = <<>> THEN <<"{", "}">>
         ELSE <<"{">> \o StringifyMembers(Defined(v.o), gap, level + 1)
              \o Separator(gap, level) \o <<"}">>

\* JSON.stringify(value, null, gap)
JSONstringify(v, gap) == Stringify(v, gap, 0)

Fail == [ok |-> FALSE, v |-> Undefined, rest |-> <<>>]
Ok(v, rest) == [ok |-> TRUE, v |-> v, rest |-> rest]

RECURSIVE SkipWs(_)
SkipWs(s) == IF s # <<>> /\ IsWs(Head(s)) THEN SkipWs(Tail(s)) ELSE s

\* digits of a number literal, most significant first
RECURSIVE ParseDigits(_, _)
ParseDigits(s, acc) ==
  IF s # <<>> /\ IsDigit(Head(s))
  THEN ParseDigits(Tail(s), acc * 10 + DigitVal(Head(s)))
  ELSE Ok(Num(acc), s)

ParseNat(s) ==
  IF s = <<>> \/ ~IsDigit(Head(s)) THEN Fail
  ELSE IF Head(s) = "0" /\ Len(s) > 1 /\ IsDigit(s[2]) THEN Fail
  ELSE ParseDigits(s, 0)

ParseNumber(s) ==
  IF Head(s) = "-"
  THEN LET r == ParseNat(Tail(s))
       IN IF r.ok THEN Ok(Num(0 - r.v.n), r.rest) ELSE Fail
  ELSE ParseNat(s)

\* the atoms of a string literal up to its closing quote
RECURSIVE ParseChars(_, _)
ParseChars(s, acc) ==
  IF s = <<>> THEN Fail
  ELSE IF Head(s) = "\"" THEN Ok(Str(acc), Tail(s))
  ELSE IF Head(s) = "\n" THEN Fail
  ELSE IF Head(s) = "\\"
       THEN IF Len(s) < 2 THEN Fail
            ELSE IF s[2] \in {"\"", "\\"}
                 THEN ParseChars(Tail(Tail(s)), Append(acc, s[2]))
            ELSE IF s[2] = "n"
                 THEN ParseChars(Tail(Tail(s)), Append(acc, "\n"))
            ELSE Fail
  ELSE ParseChars(Tail(s), Append(acc, Head(s)))

RECURSIVE ParseValue(_)
RECURSIVE ParseElements(_, _)
RECURSIVE ParseMembers(_, _)
ParseElements(s, acc) ==
  LET r == ParseValue(SkipWs(s))
  IN IF ~r.ok THEN Fail
     ELSE LET t == SkipWs(r.rest)
          IN IF t = <<>> THEN Fail
             ELSE IF Head(t) = "," THEN ParseElements(Tail(t), Append(acc, r.v))
             ELSE IF Head(t) = "]" THEN Ok(Arr(Append(acc, r.v)), Tail(t))
             ELSE Fail
ParseMembers(s, acc) ==
  LET s1 == SkipWs(s)
  IN IF s1 = <<>> \/ Head(s1) # "\"" THEN Fail
     ELSE LET key == ParseChars(Tail(s1), <<>>)
          IN IF ~key.ok THEN Fail
             ELSE LET s2 == SkipWs(key.rest)
                  IN IF s2 = <<>> \/ Head(s2) # ":" THEN Fail
                     ELSE LET r == ParseValue(SkipWs(Tail(s2)))
                          IN IF ~r.ok THEN Fail
                             ELSE LET t == SkipWs(r.rest)
                                      o == SetKey(acc, Flatten(key.v.s), r.v)
                                  IN IF t = <<>> THEN Fail
                                     ELSE IF Head(t) = ","
                                          THEN ParseMembers(Tail(t), o)
                                     ELSE IF Head(t) = "}"
                                          THEN Ok(Obj(o), Tail(t))
                                     ELSE Fail
ParseValue(s) ==
  IF s = <<>> THEN Fail
  ELSE CASE Head(s) = "null" -> Ok(Null, Tail(s))
         [] Head(s) = "true" -> Ok(Bool(TRUE), Tail(s))
         [] Head(s) = "false" -> Ok(Bool(FALSE), Tail(s))
         [] Head(s) = "\"" -> ParseChars(Tail(s), <<>>)
         [] Head(s) = "-" \/ IsDigit(Head(s)) -> ParseNumber(s)
         [] Head(s) = "[" ->
              (LET t == SkipWs(Tail(s))
               IN IF t # <<>> /\ Head(t) = "]" THEN Ok(Arr(<<>>), Tail(t))
                  ELSE ParseElements(t, <<>>))
         [] Head(s) = "{" ->
              (LET t == SkipWs(Tail(s))
               IN IF t # <<>> /\ Head(t) = "}" THEN Ok(Obj(<<>>), Tail(t))
                  ELSE ParseMembers(t, <<>>))
         [] OTHER -> Fail

\* JSON.parse(text): ok with the value, or not ok (a SyntaxError)
JSONparse(text) ==
  LET r == ParseValue(SkipWs(text))
  IN IF r.ok /\ SkipWs(r.rest) = <<>> THEN r ELSE Fail

-----------------------------------------------------------------------------
(* Tool catalog: name, declared properties and required list of each
   descriptor of tools, in source order *)

tools == <<
  [name |-> "search_messages",
   properties |-> <<"query", "channel_id", "days", "date_from", "date_to", "importance_level", "topic", "has_media", "media_type", "language", "min_views", "min_forwards", "channel_folder", "page", "page_size">>,
   required |-> <<>>],
  [name |-> "get_message",
   properties |-> <<"message_id">>,
   required |-> <<"message_id">>],
  [name |-> "get_message_album",
   properties |-> <<"message_id">>,
   required |-> <<"message_id">>],
  [name |-> "get_message_network",
   properties |-> <<"message_id", "include_similar", "similarity_threshold", "max_similar">>,
   required |-> <<"message_id">>],
  [name |-> "get_message_timeline",
   properties |-> <<"message_id", "before_count", "after_count", "same_channel_only", "use_semantic", "use_events">>,
   required |-> <<"message_id">>],
  [name |-> "semantic_search",
   properties |-> <<"query", "similarity_threshold", "limit", "channel_id", "importance_level", "days">>,
   required |-> <<"query">>],
  [name |-> "find_similar_messages",
   properties |-> <<"message_id", "similarity_threshold", "limit">>,
   required |-> <<"message_id">>],
  [name |-> "get_tags",
   properties |-> <<"tag_type", "limit">>,
   required |-> <<>>],
  [name |-> "search_by_tags",
   properties |-> <<"tags", "match_all", "limit">>,
   required |-> <<"tags">>],
  [name |-> "unified_search",
   properties |-> <<"query", "mode", "types", "limit_per_type", "days", "location", "lat", "lng", "radius_km">>,
   required |-> <<"query">>],
  [name |-> "list_channels",
   properties |-> <<"active_only", "rule", "folder", "verified_only", "limit">>,
   required |-> <<>>],
  [name |-> "get_channel",
   properties |-> <<"channel_id">>,
   required |-> <<"channel_id">>],
  [name |-> "get_channel_stats",
   properties |-> <<"channel_id">>,
   required |-> <<"channel_id">>],
  [name |-> "get_channel_network",
   properties |-> <<"channel_id", "similarity_threshold", "max_messages", "time_window", "include_clusters">>,
   required |-> <<"channel_id">>],
  [name |-> "get_message_social_graph",
   properties |-> <<"message_id", "include_forwards", "include_replies", "max_depth", "max_comments">>,
   required |-> <<"message_id">>],
  [name |-> "get_channel_influence",
   properties |-> <<"channel_id">>,
   required |-> <<"channel_id">>],
  [name |-> "get_influence_network",
   properties |-> <<"min_forwards", "days", "limit">>,
   required |-> <<>>],
  [name |-> "get_engagement_timeline",
   properties |-> <<"message_id">>,
   required |-> <<"message_id">>],
  [name |-> "get_message_comments",
   properties |-> <<"message_id", "limit", "offset">>,
   required |-> <<"message_id">>],
  [name |-> "get_top_forwarded",
   properties |-> <<"days", "limit">>,
   required |-> <<>>],
  [name |-> "get_top_influencers",
   properties |-> <<"days", "limit">>,
   required |-> <<>>],
  [name |-> "search_entities",
   properties |-> <<"query", "source", "entity_type", "limit">>,
   required |-> <<"query">>],
  [name |-> "get_entity",
   properties |-> <<"source", "entity_id", "include_linked">>,
   required |-> <<"source", "entity_id">>],
  [name |-> "get_entity_relationships",
   properties |-> <<"source", "entity_id", "refresh">>,
   required |-> <<"source", "entity_id">>],
  [name |-> "get_entity_mentions",
   properties |-> <<"source", "entity_id", "limit">>,
   required |-> <<"source", "entity_id">>],
  [name |-> "list_events",
   properties |-> <<"page", "page_size", "tab", "tier_status", "event_type", "search", "search_mode">>,
   required |-> <<>>],
  [name |-> "get_event_stats",
   properties |-> <<>>,
   required |-> <<>>],
  [name |-> "get_event",
   properties |-> <<"event_id", "include_messages", "include_sources", "message_limit">>,
   required |-> <<"event_id">>],
  [name |-> "get_event_timeline",
   properties |-> <<"event_id">>,
   required |-> <<"event_id">>],
  [name |-> "get_events_for_message",
   properties |-> <<"message_id">>,
   required |-> <<"message_id">>],
  [name |-> "get_timeline_stats",
   properties |-> <<"granularity", "channel_id", "topic", "importance_level", "days">>,
   required |-> <<>>],
  [name |-> "get_topic_distribution",
   properties |-> <<"days", "limit">>,
   required |-> <<>>],
  [name |-> "get_language_distribution",
   properties |-> <<"days">>,
   required |-> <<>>],
  [name |-> "get_channel_analytics",
   properties |-> <<"days", "limit">>,
   required |-> <<>>],
  [name |-> "get_activity_heatmap",
   properties |-> <<"days">>,
   required |-> <<>>],
  [name |-> "get_entity_analytics",
   properties |-> <<"days", "limit">>,
   required |-> <<>>],
  [name |-> "get_media_analytics",
   properties |-> <<>>,
   required |-> <<>>],
  [name |-> "get_map_messages",
   properties |-> <<"bounds", "zoom", "cluster", "cluster_grid_size", "days", "include_confidence">>,
   required |-> <<>>],
  [name |-> "get_map_clusters",
   properties |-> <<"bounds", "tier_status", "days">>,
   required |-> <<>>],
  [name |-> "get_map_events",
   properties |-> <<"bounds">>,
   required |-> <<>>],
  [name |-> "get_map_heatmap",
   properties |-> <<"zoom", "bounds", "grid_size">>,
   required |-> <<>>],
  [name |-> "suggest_locations",
   properties |-> <<"query", "limit">>,
   required |-> <<"query">>],
  [name |-> "reverse_geocode",
   properties |-> <<"lat", "lng">>,
   required |-> <<"lat", "lng">>],
  [name |-> "get_unified_stream",
   properties |-> <<"limit", "sources", "categories", "importance_level", "hours">>,
   required |-> <<>>],
  [name |-> "validate_message",
   properties |-> <<"message_id">>,
   required |-> <<"message_id">>],
  [name |-> "get_message_correlations",
   properties |-> <<"message_id">>,
   required |-> <<"message_id">>],
  [name |-> "get_media_gallery",
   properties |-> <<"channel_id", "media_type", "date_from", "date_to", "limit", "offset">>,
   required |-> <<>>],
  [name |-> "get_platform_dashboard",
   properties |-> <<>>,
   required |-> <<>>],
  [name |-> "get_platform_stats_overview",
   properties |-> <<>>,
   required |-> <<>>],
  [name |-> "get_data_quality_stats",
   properties |-> <<>>,
   required |-> <<>>],
  [name |-> "get_processing_stats",
   properties |-> <<"hours">>,
   required |-> <<>>],
  [name |-> "get_storage_stats",
   properties |-> <<>>,
   required |-> <<>>],
  [name |-> "get_worker_stats",
   properties |-> <<>>,
   required |-> <<>>],
  [name |-> "get_enrichment_tasks",
   properties |-> <<>>,
   required |-> <<>>],
  [name |-> "get_cache_stats",
   properties |-> <<>>,
   required |-> <<>>],
  [name |-> "get_audit_stats",
   properties |-> <<>>,
   required |-> <<>>],
  [name |-> "get_spam_stats",
   properties |-> <<>>,
   required |-> <<>>],
  [name |-> "get_channels_admin_stats",
   properties |-> <<>>,
   required |-> <<>>],
  [name |-> "get_entities_admin_stats",
   properties |-> <<>>,
   required |-> <<>>],
  [name |-> "get_rss_feeds_stats",
   properties |-> <<>>,
   required |-> <<>>],
  [name |-> "get_llm_prompts_stats",
   properties |-> <<>>,
   required |-> <<>>],
  [name |-> "get_viral_posts",
   properties |-> <<>>,
   required |-> <<>>],
  [name |-> "get_system_health",
   properties |-> <<>>,
   required |-> <<>>],
  [name |-> "get_hardware_config",
   properties |-> <<>>,
   required |-> <<>>],
  [name |-> "get_system_status",
   properties |-> <<>>,
   required |-> <<>>],
  [name |-> "get_metrics_overview",
   properties |-> <<>>,
   required |-> <<>>],
  [name |-> "get_metrics_llm",
   properties |-> <<>>,
   required |-> <<>>],
  [name |-> "get_metrics_pipeline",
   properties |-> <<>>,
   required |-> <<>>],
  [name |-> "get_metrics_services",
   properties |-> <<>>,
   required |-> <<>>],
  [name |-> "list_llm_models",
   properties |-> <<>>,
   required |-> <<>>],
  [name |-> "get_llm_model_health",
   properties |-> <<>>,
   required |-> <<>>]
>>

(* Dispatcher: the case labels of the switch in handleToolCall, in source
   order.  method is the apiClient method called, positional the args
   fields passed as positional arguments, params the <<key, field>> pairs
   of the object literal (key: args.field), hasParams whether an object
   literal is passed at all *)

handleToolCallCases == <<
  [name |-> "search_messages", method |-> "searchMessages",
   positional |-> <<>>,
   params |-> <<<<"q", "query">>, <<"channel_id", "channel_id">>, <<"days", "days">>, <<"date_from", "date_from">>, <<"date_to", "date_to">>, <<"importance_level", "importance_level">>, <<"topic", "topic">>, <<"has_media", "has_media">>, <<"media_type", "media_type">>, <<"language", "language">>, <<"min_views", "min_views">>, <<"min_forwards", "min_forwards">>, <<"channel_folder", "channel_folder">>, <<"page", "page">>, <<"page_size", "page_size">>>>,
   hasParams |-> TRUE],
  [name |-> "get_message", method |-> "getMessage",
   positional |-> <<"message_id">>,
   params |-> <<>>,
   hasParams |-> FALSE],
  [name |-> "get_message_album", method |-> "getMessageAlbum",
   positional |-> <<"message_id">>,
   params |-> <<>>,
   hasParams |-> FALSE],
  [name |-> "get_message_network", method |-> "getMessageNetwork",
   positional |-> <<"message_id">>,
   params |-> <<<<"include_similar", "include_similar">>, <<"similarity_threshold", "similarity_threshold">>, <<"max_similar", "max_similar">>>>,
   hasParams |-> TRUE],
  [name |-> "get_message_timeline", method |-> "getMessageTimeline",
   positional |-> <<"message_id">>,
   params |-> <<<<"before_count", "before_count">>, <<"after_count", "after_count">>, <<"same_channel_only", "same_channel_only">>, <<"use_semantic", "use_semantic">>, <<"use_events", "use_events">>, <<"similarity_threshold", "similarity_threshold">>>>,
   hasParams |-> TRUE],
  [name |-> "semantic_search", method |-> "semanticSearch",
   positional |-> <<>>,
   params |-> <<<<"q", "query">>, <<"similarity_threshold", "similarity_threshold">>, <<"limit", "limit">>, <<"channel_id", "channel_id">>, <<"importance_level", "importance_level">>, <<"days", "days">>>>,
   hasParams |-> TRUE],
  [name |-> "find_similar_messages", method |-> "findSimilarMessages",
   positional |-> <<"message_id">>,
   params |-> <<<<"similarity_threshold", "similarity_threshold">>, <<"limit", "limit">>>>,
   hasParams |-> TRUE],
  [name |-> "get_tags", method |-> "getTags",
   positional |-> <<>>,
   params |-> <<<<"tag_type", "tag_type">>, <<"limit", "limit">>>>,
   hasParams |-> TRUE],
  [name |-> "search_by_tags", method |-> "searchByTags",
   positional |-> <<>>,
   params |-> <<<<"tags", "tags">>, <<"match_all", "match_all">>, <<"limit", "limit">>>>,
   hasParams |-> TRUE],
  [name |-> "unified_search", method |-> "unifiedSearch",
   positional |-> <<>>,
   params |-> <<<<"q", "query">>, <<"mode", "mode">>, <<"types", "types">>, <<"limit_per_type", "limit_per_type">>, <<"days", "days">>, <<"location", "location">>, <<"lat", "lat">>, <<"lng", "lng">>, <<"radius_km", "radius_km">>>>,
   hasParams |-> TRUE],
  [name |-> "list_channels", method |-> "listChannels",
   positional |-> <<>>,
   params |-> <<<<"active_only", "active_only">>, <<"rule", "rule">>, <<"folder", "folder">>, <<"verified_only", "verified_only">>, <<"limit", "limit">>>>,
   hasParams |-> TRUE],
  [name |-> "get_channel", method |-> "getChannel",
   positional |-> <<"channel_id">>,
   params |-> <<>>,
   hasParams |-> FALSE],
  [name |-> "get_channel_stats", method |-> "getChannelStats",
   positional |-> <<"channel_id">>,
   params |-> <<>>,
   hasParams |-> FALSE],
  [name |-> "get_channel_network", method |-> "getChannelNetwork",
   positional |-> <<"channel_id">>,
   params |-> <<<<"similarity_threshold", "similarity_threshold">>, <<"max_messages", "max_messages">>, <<"time_window", "time_window">>, <<"include_clusters", "include_clusters">>>>,
   hasParams |-> TRUE],
  [name |-> "get_message_social_graph", method |-> "getMessageSocialGraph",
   positional |-> <<"message_id">>,
   params |-> <<<<"include_forwards", "include_forwards">>, <<"include_replies", "include_replies">>, <<"max_depth", "max_depth">>, <<"max_comments", "max_comments">>>>,
   hasParams |-> TRUE],
  [name |-> "get_channel_influence", method |-> "getChannelInfluence",
   positional |-> <<"channel_id">>,
   params |-> <<>>,
   hasParams |-> FALSE],
  [name |-> "get_influence_network", method |-> "getInfluenceNetwork",
   positional |-> <<>>,
   params |-> <<<<"min_forwards", "min_forwards">>, <<"days", "days">>, <<"limit", "limit">>>>,
   hasParams |-> TRUE],
  [name |-> "get_engagement_timeline", method |-> "getEngagementTimeline",
   positional |-> <<"message_id">>,
   params |-> <<>>,
   hasParams |-> FALSE],
  [name |-> "get_message_comments", method |-> "getMessageComments",
   positional |-> <<"message_id">>,
   params |-> <<<<"limit", "limit">>, <<"offset", "offset">>>>,
   hasParams |-> TRUE],
  [name |-> "get_top_forwarded", method |-> "getTopForwarded",
   positional |-> <<>>,
   params |-> <<<<"days", "days">>, <<"limit", "limit">>>>,
   hasParams |-> TRUE],
  [name |-> "get_top_influencers", method |-> "getTopInfluencers",
   positional |-> <<>>,
   params |-> <<<<"days", "days">>, <<"limit", "limit">>>>,
   hasParams |-> TRUE],
  [name |-> "search_entities", method |-> "searchEntities",
   positional |-> <<>>,
   params |-> <<<<"q", "query">>, <<"source", "source">>, <<"entity_type", "entity_type">>, <<"limit", "limit">>>>,
   hasParams |-> TRUE],
  [name |-> "get_entity", method |-> "getEntity",
   positional |-> <<"source", "entity_id">>,
   params |-> <<<<"include_linked", "include_linked">>>>,
   hasParams |-> TRUE],
  [name |-> "get_entity_relationships", method |-> "getEntityRelationships",
   positional |-> <<"source", "entity_id">>,
   params |-> <<<<"refresh", "refresh">>>>,
   hasParams |-> TRUE],
  [name |-> "get_entity_mentions", method |-> "getEntityMessages",
   positional |-> <<"source", "entity_id">>,
   params |-> <<<<"limit", "limit">>>>,
   hasParams |-> TRUE],
  [name |-> "list_events", method |-> "listEvents",
   positional |-> <<>>,
   params |-> <<<<"page", "page">>, <<"page_size", "page_size">>, <<"tab", "tab">>, <<"tier_status", "tier_status">>, <<"event_type", "event_type">>, <<"search", "search">>, <<"search_mode", "search_mode">>>>,
   hasParams |-> TRUE],
  [name |-> "get_event_stats", method |-> "getEventStats",
   positional |-> <<>>,
   params |-> <<>>,
   hasParams |-> FALSE],
  [name |-> "get_event", method |-> "getEvent",
   positional |-> <<"event_id">>,
   params |-> <<<<"include_messages", "include_messages">>, <<"include_sources", "include_sources">>, <<"message_limit", "message_limit">>>>,
   hasParams |-> TRUE],
  [name |-> "get_event_timeline", method |-> "getEventTimeline",
   positional |-> <<"event_id">>,
   params |-> <<>>,
   hasParams |-> FALSE],
  [name |-> "get_events_for_message", method |-> "getEventsForMessage",
   positional |-> <<"message_id">>,
   params |-> <<>>,
   hasParams |-> FALSE],
  [name |-> "get_timeline_stats", method |-> "getTimelineStats",
   positional |-> <<>>,
   params |-> <<<<"granularity", "granularity">>, <<"channel_id", "channel_id">>, <<"topic", "topic">>, <<"importance_level", "importance_level">>, <<"days", "days">>>>,
   hasParams |-> TRUE],
  [name |-> "get_topic_distribution", method |-> "getTopicDistribution",
   positional |-> <<>>,
   params |-> <<<<"days", "days">>, <<"limit", "limit">>>>,
   hasParams |-> TRUE],
  [name |-> "get_language_distribution", method |-> "getLanguageDistribution",
   positional |-> <<>>,
   params |-> <<<<"days", "days">>>>,
   hasParams |-> TRUE],
  [name |-> "get_channel_analytics", method |-> "getChannelAnalytics",
   positional |-> <<>>,
   params |-> <<<<"days", "days">>, <<"limit", "limit">>>>,
   hasParams |-> TRUE],
  [name |-> "get_activity_heatmap", method |-> "getHeatmap",
   positional |-> <<>>,
   params |-> <<<<"days", "days">>>>,
   hasParams |-> TRUE],
  [name |-> "get_entity_analytics", method |-> "getEntityAnalytics",
   positional |-> <<>>,
   params |-> <<<<"days", "days">>, <<"limit", "limit">>>>,
   hasParams |-> TRUE],
  [name |-> "get_media_analytics", method |-> "getMediaAnalytics",
   positional |-> <<>>,
   params |-> <<>>,
   hasParams |-> FALSE],
  [name |-> "get_map_messages", method |-> "getMapMessages",
   positional |-> <<>>,
   params |-> <<<<"bounds", "bounds">>, <<"zoom", "zoom">>, <<"cluster", "cluster">>, <<"cluster_grid_size", "cluster_grid_size">>, <<"days", "days">>, <<"include_confidence", "include_confidence">>>>,
   hasParams |-> TRUE],
  [name |-> "get_map_clusters", method |-> "getMapClusters",
   positional |-> <<>>,
   params |-> <<<<"bounds", "bounds">>, <<"tier_status", "tier_status">>, <<"days", "days">>>>,
   hasParams |-> TRUE],
  [name |-> "get_map_events", method |-> "getMapEvents",
   positional |-> <<>>,
   params |-> <<<<"bounds", "bounds">>>>,
   hasParams |-> TRUE],
  [name |-> "get_map_heatmap", method |-> "getMapHeatmap",
   positional |-> <<>>,
   params |-> <<<<"zoom", "zoom">>, <<"bounds", "bounds">>, <<"grid_size", "grid_size">>>>,
   hasParams |-> TRUE],
  [name |-> "suggest_locations", method |-> "suggestLocations",
   positional |-> <<>>,
   params |-> <<<<"q", "query">>, <<"limit", "limit">>>>,
   hasParams |-> TRUE],
  [name |-> "reverse_geocode", method |-> "reverseGeocode",
   positional |-> <<>>,
   params |-> <<<<"lat", "lat">>, <<"lng", "lng">>>>,
   hasParams |-> TRUE],
  [name |-> "get_unified_stream", method |-> "getUnifiedStream",
   positional |-> <<>>,
   params |-> <<<<"limit", "limit">>, <<"sources", "sources">>, <<"categories", "categories">>, <<"importance_level", "importance_level">>, <<"hours", "hours">>>>,
   hasParams |-> TRUE],
  [name |-> "validate_message", method |-> "validateMessage",
   positional |-> <<"message_id">>,
   params |-> <<>>,
   hasParams |-> FALSE],
  [name |-> "get_message_correlations", method |-> "getCorrelations",
   positional |-> <<"message_id">>,
   params |-> <<>>,
   hasParams |-> FALSE],
  [name |-> "get_media_gallery", method |-> "getMediaGallery",
   positional |-> <<>>,
   params |-> <<<<"channel_id", "channel_id">>, <<"media_type", "media_type">>, <<"date_from", "date_from">>, <<"date_to", "date_to">>, <<"limit", "limit">>, <<"offset", "offset">>>>,
   hasParams |-> TRUE],
  [name |-> "get_platform_dashboard", method |-> "getAdminDashboard",
   positional |-> <<>>,
   params |-> <<>>,
   hasParams |-> FALSE],
  [name |-> "get_platform_stats_overview", method |-> "getAdminStatsOverview",
   positional |-> <<>>,
   params |-> <<>>,
   hasParams |-> FALSE],
  [name |-> "get_data_quality_stats", method |-> "getAdminStatsQuality",
   positional |-> <<>>,
   params |-> <<>>,
   hasParams |-> FALSE],
  [name |-> "get_processing_stats", method |-> "getAdminStatsProcessing",
   positional |-> <<>>,
   params |-> <<<<"hours", "hours">>>>,
   hasParams |-> TRUE],
  [name |-> "get_storage_stats", method |-> "getAdminStatsStorage",
   positional |-> <<>>,
   params |-> <<>>,
   hasParams |-> FALSE],
  [name |-> "get_worker_stats", method |-> "getAdminWorkersStats",
   positional |-> <<>>,
   params |-> <<>>,
   hasParams |-> FALSE],
  [name |-> "get_enrichment_tasks", method |-> "getAdminEnrichmentTasks",
   positional |-> <<>>,
   params |-> <<>>,
   hasParams |-> FALSE],
  [name |-> "get_cache_stats", method |-> "getAdminCacheStats",
   positional |-> <<>>,
   params |-> <<>>,
   hasParams |-> FALSE],
  [name |-> "get_audit_stats", method |-> "getAdminAuditStats",
   positional |-> <<>>,
   params |-> <<>>,
   hasParams |-> FALSE],
  [name |-> "get_spam_stats", method |-> "getAdminSpamStats",
   positional |-> <<>>,
   params |-> <<>>,
   hasParams |-> FALSE],
  [name |-> "get_channels_admin_stats", method |-> "getAdminChannelsStats",
   positional |-> <<>>,
   params |-> <<>>,
   hasParams |-> FALSE],
  [name |-> "get_entities_admin_stats", method |-> "getAdminEntitiesStats",
   positional |-> <<>>,
   params |-> <<>>,
   hasParams |-> FALSE],
  [name |-> "get_rss_feeds_stats", method |-> "getAdminFeedsStats",
   positional |-> <<>>,
   params |-> <<>>,
   hasParams |-> FALSE],
  [name |-> "get_llm_prompts_stats", method |-> "getAdminPromptsStats",
   positional |-> <<>>,
   params |-> <<>>,
   hasParams |-> FALSE],
  [name |-> "get_viral_posts", method |-> "getAdminViralPosts",
   positional |-> <<>>,
   params |-> <<>>,
   hasParams |-> FALSE],
  [name |-> "get_system_health", method |-> "getHealth",
   positional |-> <<>>,
   params |-> <<>>,
   hasParams |-> FALSE],
  [name |-> "get_hardware_config", method |-> "getHardwareConfig",
   positional |-> <<>>,
   params |-> <<>>,
   hasParams |-> FALSE],
  [name |-> "get_system_status", method |-> "getSystemStatus",
   positional |-> <<>>,
   params |-> <<>>,
   hasParams |-> FALSE],
  [name |-> "get_metrics_overview", method |-> "getMetricsOverview",
   positional |-> <<>>,
   params |-> <<>>,
   hasParams |-> FALSE],
  [name |-> "get_metrics_llm", method |-> "getMetricsLLM",
   positional |-> <<>>,
   params |-> <<>>,
   hasParams |-> FALSE],
  [name |-> "get_metrics_pipeline", method |-> "getMetricsPipeline",
   positional |-> <<>>,
   params |-> <<>>,
   hasParams |-> FALSE],
  [name |-> "get_metrics_services", method |-> "getMetricsServices",
   positional |-> <<>>,
   params |-> <<>>,
   hasParams |-> FALSE],
  [name |-> "list_llm_models", method |-> "listModels",
   positional |-> <<>>,
   params |-> <<>>,
   hasParams |-> FALSE],
  [name |-> "get_llm_model_health", method |-> "getModelHealth",
   positional |-> <<>>,
   params |-> <<>>,
   hasParams |-> FALSE]
>>

(* API client endpoint methods: HTTP verb, path template (literal pieces
   and holes naming a positional parameter by index) and whether the
   method hands its params argument to get *)

EndpointMethods == <<
  [name |-> "searchMessages", verb |-> "GET", arity |-> 0,
   path |-> <<[lit |-> "/api/messages", hole |-> 0]>>,
   passesParams |-> TRUE],
  [name |-> "getMessage", verb |-> "GET", arity |-> 1,
   path |-> <<[lit |-> "/api/messages/", hole |-> 0], [lit |-> "", hole |-> 1]>>,
   passesParams |-> FALSE],
  [name |-> "getAdjacentMessages", verb |-> "GET", arity |-> 1,
   path |-> <<[lit |-> "/api/messages/", hole |-> 0], [lit |-> "", hole |-> 1], [lit |-> "/adjacent", hole |-> 0]>>,
   passesParams |-> FALSE],
  [name |-> "getMessageAlbum", verb |-> "GET", arity |-> 1,
   path |-> <<[lit |-> "/api/messages/", hole |-> 0], [lit |-> "", hole |-> 1], [lit |-> "/album", hole |-> 0]>>,
   passesParams |-> FALSE],
  [name |-> "getMessageNetwork", verb |-> "GET", arity |-> 1,
   path |-> <<[lit |-> "/api/messages/", hole |-> 0], [lit |-> "", hole |-> 1], [lit |-> "/network", hole |-> 0]>>,
   passesParams |-> TRUE],
  [name |-> "getMessageTimeline", verb |-> "GET", arity |-> 1,
   path |-> <<[lit |-> "/api/messages/", hole |-> 0], [lit |-> "", hole |-> 1], [lit |-> "/timeline", hole |-> 0]>>,
   passesParams |-> TRUE],
  [name |-> "semanticSearch", verb |-> "GET", arity |-> 0,
   path |-> <<[lit |-> "/api/semantic/search", hole |-> 0]>>,
   passesParams |-> TRUE],
  [name |-> "findSimilarMessages", verb |-> "GET", arity |-> 1,
   path |-> <<[lit |-> "/api/semantic/similar/", hole |-> 0], [lit |-> "", hole |-> 1]>>,
   passesParams |-> TRUE],
  [name |-> "getTags", verb |-> "GET", arity |-> 0,
   path |-> <<[lit |-> "/api/semantic/tags", hole |-> 0]>>,
   passesParams |-> TRUE],
  [name |-> "searchByTags", verb |-> "GET", arity |-> 0,
   path |-> <<[lit |-> "/api/semantic/tags/search", hole |-> 0]>>,
   passesParams |-> TRUE],
  [name |-> "unifiedSearch", verb |-> "GET", arity |-> 0,
   path |-> <<[lit |-> "/api/search", hole |-> 0]>>,
   passesParams |-> TRUE],
  [name |-> "listChannels", verb |-> "GET", arity |-> 0,
   path |-> <<[lit |-> "/api/channels", hole |-> 0]>>,
   passesParams |-> TRUE],
  [name |-> "getChannel", verb |-> "GET", arity |-> 1,
   path |-> <<[lit |-> "/api/channels/", hole |-> 0], [lit |-> "", hole |-> 1]>>,
   passesParams |-> FALSE],
  [name |-> "getChannelStats", verb |-> "GET", arity |-> 1,
   path |-> <<[lit |-> "/api/channels/", hole |-> 0], [lit |-> "", hole |-> 1], [lit |-> "/stats", hole |-> 0]>>,
   passesParams |-> FALSE],
  [name |-> "getChannelNetwork", verb |-> "GET", arity |-> 1,
   path |-> <<[lit |-> "/api/channels/", hole |-> 0], [lit |-> "", hole |-> 1], [lit |-> "/network", hole |-> 0]>>,
   passesParams |-> TRUE],
  [name |-> "getMessageSocialGraph", verb |-> "GET", arity |-> 1,
   path |-> <<[lit |-> "/api/social-graph/messages/", hole |-> 0], [lit |-> "", hole |-> 1]>>,
   passesParams |-> TRUE],
  [name |-> "getChannelInfluence", verb |-> "GET", arity |-> 1,
   path |-> <<[lit |-> "/api/social-graph/channels/", hole |-> 0], [lit |-> "", hole |-> 1], [lit |-> "/influence", hole |-> 0]>>,
   passesParams |-> FALSE],
  [name |-> "getInfluenceNetwork", verb |-> "GET", arity |-> 0,
   path |-> <<[lit |-> "/api/social-graph/influence-network", hole |-> 0]>>,
   passesParams |-> TRUE],
  [name |-> "getEngagementTimeline", verb |-> "GET", arity |-> 1,
   path |-> <<[lit |-> "/api/social-graph/messages/", hole |-> 0], [lit |-> "", hole |-> 1], [lit |-> "/engagement-timeline", hole |-> 0]>>,
   passesParams |-> FALSE],
  [name |-> "getMessageComments", verb |-> "GET", arity |-> 1,
   path |-> <<[lit |-> "/api/social-graph/messages/", hole |-> 0], [lit |-> "", hole |-> 1], [lit |-> "/comments", hole |-> 0]>>,
   passesParams |-> TRUE],
  [name |-> "getTopForwarded", verb |-> "GET", arity |-> 0,
   path |-> <<[lit |-> "/api/social-graph/virality/top-forwarded", hole |-> 0]>>,
   passesParams |-> TRUE],
  [name |-> "getTopInfluencers", verb |-> "GET", arity |-> 0,
   path |-> <<[lit |-> "/api/social-graph/influencers", hole |-> 0]>>,
   passesParams |-> TRUE],
  [name |-> "searchEntities", verb |-> "GET", arity |-> 0,
   path |-> <<[lit |-> "/api/entities/search", hole |-> 0]>>,
   passesParams |-> TRUE],
  [name |-> "getEntity", verb |-> "GET", arity |-> 2,
   path |-> <<[lit |-> "/api/entities/", hole |-> 0], [lit |-> "", hole |-> 1], [lit |-> "/", hole |-> 0], [lit |-> "", hole |-> 2]>>,
   passesParams |-> TRUE],
  [name |-> "getEntityRelationships", verb |-> "GET", arity |-> 2,
   path |-> <<[lit |-> "/api/entities/", hole |-> 0], [lit |-> "", hole |-> 1], [lit |-> "/", hole |-> 0], [lit |-> "", hole |-> 2], [lit |-> "/relationships", hole |-> 0]>>,
   passesParams |-> TRUE],
  [name |-> "getEntityMessages", verb |-> "GET", arity |-> 2,
   path |-> <<[lit |-> "/api/entities/", hole |-> 0], [lit |-> "", hole |-> 1], [lit |-> "/", hole |-> 0], [lit |-> "", hole |-> 2], [lit |-> "/messages", hole |-> 0]>>,
   passesParams |-> TRUE],
  [name |-> "listEvents", verb |-> "GET", arity |-> 0,
   path |-> <<[lit |-> "/api/events", hole |-> 0]>>,
   passesParams |-> TRUE],
  [name |-> "getEventStats", verb |-> "GET", arity |-> 0,
   path |-> <<[lit |-> "/api/events/stats", hole |-> 0]>>,
   passesParams |-> FALSE],
  [name |-> "getEvent", verb |-> "GET", arity |-> 1,
   path |-> <<[lit |-> "/api/events/", hole |-> 0], [lit |-> "", hole |-> 1]>>,
   passesParams |-> TRUE],
  [name |-> "getEventTimeline", verb |-> "GET", arity |-> 1,
   path |-> <<[lit |-> "/api/events/", hole |-> 0], [lit |-> "", hole |-> 1], [lit |-> "/timeline", hole |-> 0]>>,
   passesParams |-> FALSE],
  [name |-> "getEventsForMessage", verb |-> "GET", arity |-> 1,
   path |-> <<[lit |-> "/api/events/message/", hole |-> 0], [lit |-> "", hole |-> 1]>>,
   passesParams |-> FALSE],
  [name |-> "getTimelineStats", verb |-> "GET", arity |-> 0,
   path |-> <<[lit |-> "/api/analytics/timeline", hole |-> 0]>>,
   passesParams |-> TRUE],
  [name |-> "getTopicDistribution", verb |-> "GET", arity |-> 0,
   path |-> <<[lit |-> "/api/analytics/distribution/topics", hole |-> 0]>>,
   passesParams |-> TRUE],
  [name |-> "getLanguageDistribution", verb |-> "GET", arity |-> 0,
   path |-> <<[lit |-> "/api/analytics/distribution/languages", hole |-> 0]>>,
   passesParams |-> TRUE],
  [name |-> "getChannelAnalytics", verb |-> "GET", arity |-> 0,
   path |-> <<[lit |-> "/api/analytics/channels/activity", hole |-> 0]>>,
   passesParams |-> TRUE],
  [name |-> "getHeatmap", verb |-> "GET", arity |-> 0,
   path |-> <<[lit |-> "/api/analytics/heatmap", hole |-> 0]>>,
   passesParams |-> TRUE],
  [name |-> "getEntityAnalytics", verb |-> "GET", arity |-> 0,
   path |-> <<[lit |-> "/api/analytics/entities", hole |-> 0]>>,
   passesParams |-> TRUE],
  [name |-> "getMediaAnalytics", verb |-> "GET", arity |-> 0,
   path |-> <<[lit |-> "/api/analytics/media", hole |-> 0]>>,
   passesParams |-> FALSE],
  [name |-> "getMapMessages", verb |-> "GET", arity |-> 0,
   path |-> <<[lit |-> "/api/map/messages", hole |-> 0]>>,
   passesParams |-> TRUE],
  [name |-> "getMapClusters", verb |-> "GET", arity |-> 0,
   path |-> <<[lit |-> "/api/map/clusters", hole |-> 0]>>,
   passesParams |-> TRUE],
  [name |-> "getMapEvents", verb |-> "GET", arity |-> 0,
   path |-> <<[lit |-> "/api/map/events", hole |-> 0]>>,
   passesParams |-> TRUE],
  [name |-> "getMapHeatmap", verb |-> "GET", arity |-> 0,
   path |-> <<[lit |-> "/api/map/heatmap", hole |-> 0]>>,
   passesParams |-> TRUE],
  [name |-> "suggestLocations", verb |-> "GET", arity |-> 0,
   path |-> <<[lit |-> "/api/map/locations/suggest", hole |-> 0]>>,
   passesParams |-> TRUE],
  [name |-> "reverseGeocode", verb |-> "GET", arity |-> 0,
   path |-> <<[lit |-> "/api/map/locations/reverse", hole |-> 0]>>,
   passesParams |-> TRUE],
  [name |-> "getUnifiedStream", verb |-> "GET", arity |-> 0,
   path |-> <<[lit |-> "/api/stream/unified", hole |-> 0]>>,
   passesParams |-> TRUE],
  [name |-> "validateMessage", verb |-> "GET", arity |-> 1,
   path |-> <<[lit |-> "/api/validation/messages/", hole |-> 0], [lit |-> "", hole |-> 1]>>,
   passesParams |-> FALSE],
  [name |-> "getCorrelations", verb |-> "GET", arity |-> 1,
   path |-> <<[lit |-> "/api/validation/messages/", hole |-> 0], [lit |-> "", hole |-> 1], [lit |-> "/correlations", hole |-> 0]>>,
   passesParams |-> FALSE],
  [name |-> "getComment", verb |-> "GET", arity |-> 1,
   path |-> <<[lit |-> "/api/comments/", hole |-> 0], [lit |-> "", hole |-> 1]>>,
   passesParams |-> FALSE],
  [name |-> "translateComment", verb |-> "POST", arity |-> 1,
   path |-> <<[lit |-> "/api/comments/", hole |-> 0], [lit |-> "", hole |-> 1], [lit |-> "/translate", hole |-> 0]>>,
   passesParams |-> FALSE],
  [name |-> "getMediaGallery", verb |-> "GET", arity |-> 0,
   path |-> <<[lit |-> "/api/media/gallery", hole |-> 0]>>,
   passesParams |-> TRUE],
  [name |-> "getAdminDashboard", verb |-> "GET", arity |-> 0,
   path |-> <<[lit |-> "/api/admin/dashboard", hole |-> 0]>>,
   passesParams |-> FALSE],
  [name |-> "getAdminStatsOverview", verb |-> "GET", arity |-> 0,
   path |-> <<[lit |-> "/api/admin/stats/overview", hole |-> 0]>>,
   passesParams |-> FALSE],
  [name |-> "getAdminStatsQuality", verb |-> "GET", arity |-> 0,
   path |-> <<[lit |-> "/api/admin/stats/quality", hole |-> 0]>>,
   passesParams |-> FALSE],
  [name |-> "getAdminStatsProcessing", verb |-> "GET", arity |-> 0,
   path |-> <<[lit |-> "/api/admin/stats/processing", hole |-> 0]>>,
   passesParams |-> TRUE],
  [name |-> "getAdminStatsStorage", verb |-> "GET", arity |-> 0,
   path |-> <<[lit |-> "/api/admin/stats/storage", hole |-> 0]>>,
   passesParams |-> FALSE],
  [name |-> "getAdminWorkersStats", verb |-> "GET", arity |-> 0,
   path |-> <<[lit |-> "/api/admin/system/workers/stats", hole |-> 0]>>,
   passesParams |-> FALSE],
  [name |-> "getAdminEnrichmentTasks", verb |-> "GET", arity |-> 0,
   path |-> <<[lit |-> "/api/admin/system/enrichment/tasks", hole |-> 0]>>,
   passesParams |-> FALSE],
  [name |-> "getAdminCacheStats", verb |-> "GET", arity |-> 0,
   path |-> <<[lit |-> "/api/admin/system/cache/stats", hole |-> 0]>>,
   passesParams |-> FALSE],
  [name |-> "getAdminAuditStats", verb |-> "GET", arity |-> 0,
   path |-> <<[lit |-> "/api/admin/system/audit/stats", hole |-> 0]>>,
   passesParams |-> FALSE],
  [name |-> "getAdminSpamStats", verb |-> "GET", arity |-> 0,
   path |-> <<[lit |-> "/api/admin/spam/stats", hole |-> 0]>>,
   passesParams |-> FALSE],
  [name |-> "getAdminChannelsStats", verb |-> "GET", arity |-> 0,
   path |-> <<[lit |-> "/api/admin/channels/stats", hole |-> 0]>>,
   passesParams |-> FALSE],
  [name |-> "getAdminEntitiesStats", verb |-> "GET", arity |-> 0,
   path |-> <<[lit |-> "/api/admin/entities/stats", hole |-> 0]>>,
   passesParams |-> FALSE],
  [name |-> "getAdminFeedsStats", verb |-> "GET", arity |-> 0,
   path |-> <<[lit |-> "/api/admin/feeds/rss/stats", hole |-> 0]>>,
   passesParams |-> FALSE],
  [name |-> "getAdminPromptsStats", verb |-> "GET", arity |-> 0,
   path |-> <<[lit |-> "/api/admin/prompts/stats", hole |-> 0]>>,
   passesParams |-> FALSE],
  [name |-> "getAdminCommentsStats", verb |-> "GET", arity |-> 0,
   path |-> <<[lit |-> "/api/admin/comments/stats", hole |-> 0]>>,
   passesParams |-> FALSE],
  [name |-> "getAdminViralPosts", verb |-> "GET", arity |-> 0,
   path |-> <<[lit |-> "/api/admin/comments/viral", hole |-> 0]>>,
   passesParams |-> FALSE],
  [name |-> "getHealth", verb |-> "GET", arity |-> 0,
   path |-> <<[lit |-> "/health", hole |-> 0]>>,
   passesParams |-> FALSE],
  [name |-> "getHardwareConfig", verb |-> "GET", arity |-> 0,
   path |-> <<[lit |-> "/api/health/hardware", hole |-> 0]>>,
   passesParams |-> FALSE],
  [name |-> "getSystemStatus", verb |-> "GET", arity |-> 0,
   path |-> <<[lit |-> "/api/system/status", hole |-> 0]>>,
   passesParams |-> FALSE],
  [name |-> "getMetricsOverview", verb |-> "GET", arity |-> 0,
   path |-> <<[lit |-> "/api/metrics/overview", hole |-> 0]>>,
   passesParams |-> FALSE],
  [name |-> "getMetricsLLM", verb |-> "GET", arity |-> 0,
   path |-> <<[lit |-> "/api/metrics/llm", hole |-> 0]>>,
   passesParams |-> FALSE],
  [name |-> "getMetricsPipeline", verb |-> "GET", arity |-> 0,
   path |-> <<[lit |-> "/api/metrics/pipeline", hole |-> 0]>>,
   passesParams |-> FALSE],
  [name |-> "getMetricsServices", verb |-> "GET", arity |-> 0,
   path |-> <<[lit |-> "/api/metrics/services", hole |-> 0]>>,
   passesParams |-> FALSE],
  [name |-> "listModels", verb |-> "GET", arity |-> 0,
   path |-> <<[lit |-> "/api/models", hole |-> 0]>>,
   passesParams |-> FALSE],
  [name |-> "getModelHealth", verb |-> "GET", arity |-> 0,
   path |-> <<[lit |-> "/api/models/health", hole |-> 0]>>,
   passesParams |-> FALSE]
>>

-----------------------------------------------------------------------------
(* OsintApiClient (api-client.ts) *)

Header(name, value) == name :> value

\* config.baseUrl.replace(/\/$/, ''): one trailing "/" atom is removed
StripTrailingSlash(rope) ==
  IF rope # <<>> /\ rope[Len(rope)] = "/" THEN SubSeq(rope, 1, Len(rope) - 1)
  ELSE rope

\* a constructor that looks at the API key before the JWT
OsintApiClientKeyFirst(config) ==
  [baseUrl |-> StripTrailingSlash(config.baseUrl.s),
   headers |->
     (IF Truthy(config.apiKey)
      THEN Header("Authorization", "Bearer " \o ToStr(config.apiKey))
      ELSE IF Truthy(config.jwtToken)
      THEN Header("Authorization", "Bearer " \o ToStr(config.jwtToken))
      ELSE IF Truthy(config.oryUserId)
      THEN (IF Truthy(config.oryUserRole)
            THEN Header("X-User-Role", ToStr(config.oryUserRole))
            ELSE <<>>)
           @@ (IF Truthy(config.oryUserEmail)
               THEN Header("X-User-Email", ToStr(config.oryUserEmail))
               ELSE <<>>)
           @@ Header("X-User-ID", ToStr(config.oryUserId))
      ELSE <<>>)
     @@ Header("Content-Type", "application/json")
     @@ Header("Accept", "application/json")]

\* constructor of the v2.0.0 client
OsintApiClient(config) ==
  [baseUrl |-> StripTrailingSlash(config.baseUrl.s),
   headers |->
     (IF Truthy(config.jwtToken)
      THEN Header("Authorization", "Bearer " \o ToStr(config.jwtToken))
      ELSE IF Truthy(config.apiKey)
      THEN Header("Authorization", "Bearer " \o ToStr(config.apiKey))
      ELSE IF Truthy(config.oryUserId)
      THEN (IF Truthy(config.oryUserRole)
            THEN Header("X-User-Role", ToStr(config.oryUserRole))
            ELSE <<>>)
           @@ (IF Truthy(config.oryUserEmail)
               THEN Header("X-User-Email", ToStr(config.oryUserEmail))
               ELSE <<>>)
           @@ Header("X-User-ID", ToStr(config.oryUserId))
      ELSE <<>>)
     @@ Header("Content-Type", "application/json")
     @@ Header("Accept", "application/json")]

\* constructor of the v1.0.0 client
OsintApiClientV1(config) ==
  [baseUrl |-> StripTrailingSlash(config.baseUrl.s),
   headers |->
     (IF Truthy(config.jwtToken)
      THEN Header("Authorization", "Bearer " \o ToStr(config.jwtToken))
      ELSE IF Truthy(config.apiKey)
      THEN Header("X-API-Key", ToStr(config.apiKey))
      ELSE <<>>)
     @@ Header("Content-Type", "application/json")
     @@ Header("Accept", "application/json")]

\* a filter on truthiness (if (value)) in place of the undefined / null test
RECURSIVE AppendParamsTruthy(_)
AppendParamsTruthy(entries) ==
  IF entries = <<>> THEN <<>>
  ELSE (IF Truthy(Head(entries).v)
        THEN <<[k |-> Head(entries).k, v |-> ToStr(Head(entries).v)]>>
        ELSE <<>>)
       \o AppendParamsTruthy(Tail(entries))

\* the forEach over Object.entries(params): an entry is appended to
\* url.searchParams unless its value is undefined or null
RECURSIVE AppendParams(_)
AppendParams(entries) ==
  IF entries = <<>> THEN <<>>
  ELSE (IF Head(entries).v.t # "undefined" /\ Head(entries).v.t # "null"
        THEN <<[k |-> Head(entries).k, v |-> ToStr(Head(entries).v)]>>
        ELSE <<>>)
       \o AppendParams(Tail(entries))

\* the serialized search part of url.toString()
RECURSIVE JoinQuery(_)
JoinQuery(q) ==
  IF q = <<>> THEN ""
  ELSE Head(q).k \o "=" \o Head(q).v
       \o (IF Len(q) > 1 THEN "&" \o JoinQuery(Tail(q)) ELSE "")

Search(q) == IF q = <<>> THEN "" ELSE "?" \o JoinQuery(q)

\* a get that leaves the Accept header out of the request
getWithoutAccept(client, endpoint, params) ==
  LET query == IF Truthy(params) THEN AppendParams(params.o) ELSE <<>>
  IN [method |-> "GET",
      url |-> Flatten(client.baseUrl) \o endpoint \o Search(query),
      path |-> endpoint,
      query |-> query,
      headers |-> [n \in DOMAIN client.headers \ {"Accept"} |->
                     client.headers[n]],
      body |-> Undefined]

\* get, up to the fetch it awaits: the request handed to fetch
get(client, endpoint, params) ==
  LET query == IF Truthy(params) THEN AppendParams(params.o) ELSE <<>>
  IN [method |-> "GET",
      url |-> Flatten(client.baseUrl) \o endpoint \o Search(query),
      path |-> endpoint,
      query |-> query,
      headers |-> client.headers,
      body |-> Undefined]

\* post, up to the fetch it awaits
post(client, endpoint, body) ==
  [method |-> "POST",
   url |-> Flatten(client.baseUrl) \o endpoint,
   path |-> endpoint,
   query |-> <<>>,
   headers |-> client.headers,
   body |-> IF Truthy(body) THEN Str(JSONstringify(body, 0)) ELSE Undefined]

Return(value) == [kind |-> "return", value |-> value, error |-> None]
Throw(name, message) ==
  [kind |-> "throw", value |-> None,
   error |-> [name |-> name, message |-> message]]

\* a success range that stops one short of 299
okBelow299(status) == status >= 200 /\ status < 299

\* response.ok
ok(status) == status >= 200 /\ status <= 299

\* a reader that hands back the text of a body that is not JSON
jsonOrText(body) ==
  LET r == JSONparse(body)
  IN IF r.ok THEN Return(r.v) ELSE Return(Str(body))

\* response.json(): the parsed body, or a SyntaxError
json(body) ==
  LET r == JSONparse(body)
  IN IF r.ok THEN Return(r.v)
     ELSE IF SkipWs(body) = <<>>
          THEN Throw("SyntaxError", "Unexpected end of JSON input")
     ELSE Throw("SyntaxError", "Unexpected token in JSON")

\* a settled fetch: a rejection (network failure) or a response
Rejected(message) == [settled |-> "rejected", message |-> message,
                      status |-> 0, body |-> <<>>]
Response(status, body) == [settled |-> "fulfilled", message |-> "",
                           status |-> status, body |-> body]

\* get, from the await of fetch to its return or throw
getResult(res) ==
  IF res.settled = "rejected" THEN Throw("TypeError", res.message)
  ELSE IF ~ok(res.status)
  THEN Throw("Error",
             "API Error " \o ToString(res.status) \o ": " \o Flatten(res.body))
  ELSE json(res.body)

\* post, from the await of fetch to its return or throw
postResult(res) ==
  IF res.settled = "rejected" THEN Throw("TypeError", res.message)
  ELSE IF ~ok(res.status)
  THEN Throw("Error",
             "API Error " \o ToString(res.status) \o ": " \o Flatten(res.body))
  ELSE json(res.body)

\* get and post of the v1.0.0 client
getV1(client, endpoint, params) ==
  LET query == IF Truthy(params) THEN AppendParams(params.o) ELSE <<>>
  IN [method |-> "GET",
      url |-> Flatten(client.baseUrl) \o endpoint \o Search(query),
      path |-> endpoint,
      query |-> query,
      headers |-> client.headers,
      body |-> Undefined]

postV1(client, endpoint, body) ==
  [method |-> "POST",
   url |-> Flatten(client.baseUrl) \o endpoint,
   path |-> endpoint,
   query |-> <<>>,
   headers |-> client.headers,
   body |-> IF Truthy(body) THEN Str(JSONstringify(body, 0)) ELSE Undefined]

getResultV1(res) ==
  IF res.settled = "rejected" THEN Throw("TypeError", res.message)
  ELSE IF ~ok(res.status)
  THEN Throw("Error",
             "API Error " \o ToString(res.status) \o ": " \o Flatten(res.body))
  ELSE json(res.body)

postResultV1(res) ==
  IF res.settled = "rejected" THEN Throw("TypeError", res.message)
  ELSE IF ~ok(res.status)
  THEN Throw("Error",
             "API Error " \o ToString(res.status) \o ": " \o Flatten(res.body))
  ELSE json(res.body)

\* the endpoint method named m
\* a client whose getMessageComments triggers the translation
MethodPosting(m) ==
  EndpointMethods[CHOOSE i \in 1..Len(EndpointMethods) :
                    EndpointMethods[i].name =
                      IF m = "getMessageComments" THEN "translateComment"
                      ELSE m]

\* a client whose getMessageAlbum requests the endpoint of getMessage
MethodShared(m) ==
  EndpointMethods[CHOOSE i \in 1..Len(EndpointMethods) :
                    EndpointMethods[i].name =
                      IF m = "getMessageAlbum" THEN "getMessage" ELSE m]

Method(m) ==
  EndpointMethods[CHOOSE i \in 1..Len(EndpointMethods) :
                    EndpointMethods[i].name = m]

\* a template literal whose holes take the arguments in reverse order
RECURSIVE InterpolateReversed(_, _)
InterpolateReversed(path, positional) ==
  IF path = <<>> THEN ""
  ELSE (IF Head(path).hole = 0 THEN Head(path).lit
        ELSE IF Head(path).hole <= Len(positional)
        THEN ToStr(positional[Len(positional) + 1 - Head(path).hole])
        ELSE "undefined")
       \o InterpolateReversed(Tail(path), positional)

\* the template literal of an endpoint path with its holes filled in
RECURSIVE Interpolate(_, _)
Interpolate(path, positional) ==
  IF path = <<>> THEN ""
  ELSE (IF Head(path).hole = 0 THEN Head(path).lit
        ELSE IF Head(path).hole <= Len(positional)
        THEN ToStr(positional[Head(path).hole])
        ELSE "undefined")
       \o Interpolate(Tail(path), positional)

\* an endpoint method, up to the fetch it awaits
CallMethod(client, m, positional, params) ==
  LET e == Method(m)
      endpoint == Interpolate(e.path, positional)
  IN IF e.verb = "GET"
     THEN get(client, endpoint, IF e.passesParams THEN params ELSE Undefined)
     ELSE post(client, endpoint, Undefined)

\* the same method, from the await of fetch on
MethodResult(m, res) ==
  IF Method(m).verb = "GET" THEN getResult(res) ELSE postResult(res)

-----------------------------------------------------------------------------
(* index.ts: configuration, dispatcher and request handlers *)

\* x || y
OrElse(x, y) == IF Truthy(x) THEN x ELSE y

\* the configuration handed to new OsintApiClient on module load
IndexConfig(e) ==
  [baseUrl |-> OrElse(e.OSINT_API_URL, Str(<<"http://localhost:8000">>)),
   apiKey |-> e.OSINT_API_KEY,
   jwtToken |-> e.OSINT_JWT_TOKEN,
   oryUserId |-> Undefined,
   oryUserEmail |-> Undefined,
   oryUserRole |-> Undefined]

CatalogNames == {tools[i].name : i \in 1..Len(tools)}

\* a switch that has lost its first case
CaseNamesFirstMissing ==
  {handleToolCallCases[i].name : i \in 2..Len(handleToolCallCases)}

CaseNames == {handleToolCallCases[i].name : i \in 1..Len(handleToolCallCases)}

\* the case the switch selects for a name: the first with that label
SelectedCase(name) ==
  handleToolCallCases[
    CHOOSE i \in 1..Len(handleToolCallCases) :
      /\ handleToolCallCases[i].name = name
      /\ \A j \in 1..(i - 1) : handleToolCallCases[j].name # name]

\* the fields of args a case reads, in evaluation order
Reads(c) == c.positional \o [j \in 1..Len(c.params) |-> c.params[j][2]]

\* a dispatcher that fills in a page size the bag does not give
ArgDefaulted(args, field) ==
  IF field = "page_size" /\ ~HasKey(args.o, field)
  THEN Num(50)
  ELSE Lookup(args.o, field)

\* args.field
Arg(args, field) == Lookup(args.o, field)

\* what handleToolCall has done when it first suspends: thrown, or
\* handed a request to fetch through a client method
Thrown(outcome) ==
  [throws |-> TRUE, outcome |-> outcome, method |-> "", request |-> None]
Fetching(method, request) ==
  [throws |-> FALSE, outcome |-> None, method |-> method, request |-> request]

\* a case body that reads a field of args even when the tool takes none
CaseBodyRequiresBag(client, c, args) ==
  IF args.t # "object"
  THEN Thrown(Throw("TypeError",
                    "Cannot read properties of " \o ToStr(args)
                    \o " (reading 'length')"))
  ELSE Fetching(
         c.method,
         CallMethod(
           client, c.method,
           [j \in 1..Len(c.positional) |-> Arg(args, c.positional[j])],
           IF c.hasParams
           THEN Obj([j \in 1..Len(c.params) |->
                       [k |-> c.params[j][1], v |-> Arg(args, c.params[j][2])]])
           ELSE Undefined))

\* a case body that checks the page size against the documented maximum
\* before it calls the client
CaseBodyValidating(client, c, args) ==
  IF Reads(c) # <<>> /\ args.t # "object"
  THEN Thrown(Throw("TypeError",
                    "Cannot read properties of " \o ToStr(args)
                    \o " (reading '" \o Head(Reads(c)) \o "')"))
  ELSE IF /\ args.t = "object"
          /\ Arg(args, "page_size").t = "number"
          /\ Arg(args, "page_size").n > 100
  THEN Thrown(Throw("Error", "page_size must be at most 100"))
  ELSE Fetching(
         c.method,
         CallMethod(
           client, c.method,
           [j \in 1..Len(c.positional) |-> Arg(args, c.positional[j])],
           IF c.hasParams
           THEN Obj([j \in 1..Len(c.params) |->
                       [k |-> c.params[j][1], v |-> Arg(args, c.params[j][2])]])
           ELSE Undefined))

\* a case body that leaves the last query field out of the call
CaseBodyDroppingLast(client, c, args) ==
  IF Reads(c) # <<>> /\ args.t # "object"
  THEN Thrown(Throw("TypeError",
                    "Cannot read properties of " \o ToStr(args)
                    \o " (reading '" \o Head(Reads(c)) \o "')"))
  ELSE Fetching(
         c.method,
         CallMethod(
           client, c.method,
           [j \in 1..Len(c.positional) |-> Arg(args, c.positional[j])],
           IF c.hasParams
           THEN Obj([j \in 1..(Len(c.params) - 1) |->
                       [k |-> c.params[j][1], v |-> Arg(args, c.params[j][2])]])
           ELSE Undefined))

\* a case body that reads an omitted bag as one with every field unset
CaseBodyOptionalBag(client, c, args) ==
  LET bag == IF args.t = "object" THEN args ELSE Obj(<<>>)
  IN Fetching(
       c.method,
       CallMethod(
         client, c.method,
         [j \in 1..Len(c.positional) |-> Arg(bag, c.positional[j])],
         IF c.hasParams
         THEN Obj([j \in 1..Len(c.params) |->
                     [k |-> c.params[j][1], v |-> Arg(bag, c.params[j][2])]])
         ELSE Undefined))

\* the body of one case: the args fields are read, then the client method
\* is called
CaseBody(client, c, args) ==
  IF Reads(c) # <<>> /\ args.t # "object"
  THEN Thrown(Throw("TypeError",
                    "Cannot read properties of " \o ToStr(args)
                    \o " (reading '" \o Head(Reads(c)) \o "')"))
  ELSE Fetching(
         c.method,
         CallMethod(
           client, c.method,
           [j \in 1..Len(c.positional) |-> Arg(args, c.positional[j])],
           IF c.hasParams
           THEN Obj([j \in 1..Len(c.params) |->
                       [k |-> c.params[j][1], v |-> Arg(args, c.params[j][2])]])
           ELSE Undefined))

\* a dispatcher whose default branch falls back to the health endpoint
handleToolCallFallback(client, name, args) ==
  IF name \notin CaseNames
  THEN CaseBody(client, SelectedCase("get_system_health"), args)
  ELSE CaseBody(client, SelectedCase(name), args)

\* handleToolCall, up to the fetch it awaits
handleToolCall(client, name, args) ==
  IF name \notin CaseNames
  THEN Thrown(Throw("Error", "Unknown tool: " \o name))
  ELSE CaseBody(client, SelectedCase(name), args)

\* a catch block that forgets the isError flag
CallToolResponseUnflagged(outcome) ==
  IF outcome.kind = "return"
  THEN [content |->
          <<[type |-> "text", text |-> JSONstringify(outcome.value, 2)]>>]
  ELSE [content |->
          <<[type |-> "text", text |-> <<"Error: ", outcome.error.message>>]>>]

\* the try / catch of the call-tool handler around the awaited outcome
CallToolResponse(outcome) ==
  IF outcome.kind = "return"
  THEN [content |->
          <<[type |-> "text", text |-> JSONstringify(outcome.value, 2)]>>]
  ELSE [content |->
          <<[type |-> "text", text |-> <<"Error: ", outcome.error.message>>]>>,
        isError |-> TRUE]

\* a list-tools handler whose catalog loses its first descriptor once a
\* call-tool response has been written
ListToolsResponseShrinking ==
  [tools |-> IF proc.served > 0 THEN Tail(tools) ELSE tools]

\* the list-tools handler
ListToolsResponse == [tools |-> tools]

-----------------------------------------------------------------------------
(* resources.ts and prompts.ts: the tables and their lookups.  A markdown
   document is represented by its heading line; a prompt expansion by its
   heading line and, in source order, every template line that has an
   interpolation, each ended by a newline.  The static lines between them
   are left out, and so are the backquotes the templates put around tool
   names, which a string of this notation cannot hold. *)

\* the URIs of the resources table, in source order
resources ==
  <<"osint://guide/getting-started", "osint://reference/topics",
    "osint://reference/event-tiers", "osint://reference/entity-types",
    "osint://reference/channel-affiliations", "osint://reference/geolocation",
    "osint://workflows/investigation">>

\* a default branch that does not say which URI was asked for
ResourceNotFoundAnonymous(uri) == <<"Resource not found">>

\* the default branch of getResourceContent
ResourceNotFound(uri) == <<"Resource not found: ", uri>>

getResourceContent(uri) ==
  CASE uri = "osint://guide/getting-started" ->
         <<"# Getting Started with OSINT Platform">>
    [] uri = "osint://reference/topics" ->
         <<"# Topic Classification Reference">>
    [] uri = "osint://reference/event-tiers" ->
         <<"# Event Verification Tiers">>
    [] uri = "osint://reference/entity-types" ->
         <<"# Entity Types and Sources">>
    [] uri = "osint://reference/channel-affiliations" ->
         <<"# Channel Affiliations and Source Types">>
    [] uri = "osint://reference/geolocation" ->
         <<"# Geolocation Pipeline Reference">>
    [] uri = "osint://workflows/investigation" ->
         <<"# Investigation Workflows">>
    [] OTHER -> ResourceNotFound(uri)

\* the names of the prompts table, in source order
prompts ==
  <<"investigate_entity", "validate_claim", "track_event", "analyze_channel",
    "trace_narrative", "daily_briefing", "geographic_sitrep",
    "platform_health_check", "find_viral_content", "discover_connections">>

\* the arguments each prompt of the table declares
PromptArgument(name, required) == [name |-> name, required |-> required]

promptArguments ==
  <<<<PromptArgument("entity_name", TRUE), PromptArgument("entity_type", FALSE)>>,
    <<PromptArgument("message_id", TRUE)>>,
    <<PromptArgument("event_id", FALSE), PromptArgument("search_query", FALSE)>>,
    <<PromptArgument("channel_id", TRUE)>>,
    <<PromptArgument("message_id", FALSE), PromptArgument("search_query", FALSE)>>,
    <<PromptArgument("hours", FALSE), PromptArgument("focus_topic", FALSE)>>,
    <<PromptArgument("location", TRUE), PromptArgument("days", FALSE)>>,
    <<>>,
    <<PromptArgument("days", FALSE), PromptArgument("topic", FALSE)>>,
    <<PromptArgument("start_entity", FALSE), PromptArgument("start_channel", FALSE)>>>>

\* an interpolation that renders a missing argument as nothing
SubstBlank(args, key) ==
  IF Arg(args, key).t = "undefined" THEN "" ELSE ToStr(Arg(args, key))

\* ${args.key}
Subst(args, key) == ToStr(Arg(args, key))

\* ${args.key || fallback}
SubstOr(args, key, fallback) == ToStr(OrElse(Arg(args, key), Num(fallback)))

\* ${args.key ? ... : ''}
When(args, key, section) == IF Truthy(Arg(args, key)) THEN section ELSE <<>>

getPromptContent(name, args) ==
  CASE name = "investigate_entity" ->
         <<"# Entity Investigation: ", Subst(args, "entity_name"), "\n",
           "I'll investigate \"", Subst(args, "entity_name"),
           "\" using these steps:", "\n",
           "- search_entities with query=\"", Subst(args, "entity_name"),
           "\"">>
         \o When(args, "entity_type",
                 <<", entity_type=\"", Subst(args, "entity_type"), "\"">>)
         \o <<"\n">>
    [] name = "validate_claim" ->
         <<"# Claim Validation: Message #", Subst(args, "message_id"), "\n",
           "I'll validate the claims in message #", Subst(args, "message_id"),
           " by:", "\n",
           "- get_message with message_id=", Subst(args, "message_id"),
           "\n">>
    [] name = "track_event" ->
         <<"# Event Tracking">>
         \o When(args, "event_id", <<": Event #", Subst(args, "event_id")>>)
         \o <<"\n">>
         \o When(args, "event_id",
                 <<"### Tools to use:", "\n",
                   "- get_event with event_id=", Subst(args, "event_id"),
                   ", include_messages=true, include_sources=true">>)
         \o <<"\n">>
         \o When(args, "search_query",
                 <<"### Tools to use:", "\n",
                   "- list_events with search=\"",
                   Subst(args, "search_query"), "\"">>)
         \o <<"\n">>
    [] name = "analyze_channel" ->
         <<"# Channel Analysis: Channel #", Subst(args, "channel_id"), "\n",
           "- get_channel with channel_id=", Subst(args, "channel_id"), "\n",
           "- search_messages with channel_id=", Subst(args, "channel_id"),
           ", importance_level=\"high\", days=7", "\n">>
    [] name = "trace_narrative" ->
         <<"# Narrative Tracing">>
         \o When(args, "message_id",
                 <<": Starting from Message #", Subst(args, "message_id")>>)
         \o <<"\n">>
         \o When(args, "message_id",
                 <<"### Tools to use:", "\n",
                   "- get_message with message_id=",
                   Subst(args, "message_id")>>)
         \o <<"\n">>
         \o When(args, "search_query",
                 <<"### Tools to use:", "\n",
                   "- semantic_search with query=\"",
                   Subst(args, "search_query"), "\"">>)
         \o <<"\n">>
    [] name = "daily_briefing" ->
         <<"# Daily Intelligence Briefing", "\n",
           "- **Time Window**: ", SubstOr(args, "hours", 24), " hours", "\n">>
         \o (IF Truthy(Arg(args, "focus_topic"))
             THEN <<"- **Focus Topic**: ", Subst(args, "focus_topic")>>
             ELSE <<"- **Focus**: All topics">>)
         \o <<"\n",
              "- search_messages with importance_level=\"high\", days=1">>
         \o When(args, "focus_topic",
                 <<", topic=\"", Subst(args, "focus_topic"), "\"">>)
         \o <<"\n">>
    [] name = "geographic_sitrep" ->
         <<"# Geographic Situation Report: ", Subst(args, "location"), "\n",
           "- **Location**: ", Subst(args, "location"), "\n",
           "- **Time Window**: ", SubstOr(args, "days", 7), " days", "\n",
           "- suggest_locations with query=\"", Subst(args, "location"),
           "\" to verify location", "\n",
           "- unified_search with location=\"", Subst(args, "location"),
           "\", days=", SubstOr(args, "days", 7), "\n">>
    [] name = "platform_health_check" -> <<"# Platform Health Check", "\n">>
    [] name = "find_viral_content" ->
         <<"# Viral Content Discovery", "\n",
           "- **Time Window**: ", SubstOr(args, "days", 7), " days", "\n">>
         \o (IF Truthy(Arg(args, "topic"))
             THEN <<"- **Topic Filter**: ", Subst(args, "topic")>>
             ELSE <<"- **Topics**: All">>)
         \o <<"\n",
              "- get_top_forwarded with days=", SubstOr(args, "days", 7), "\n",
              "- get_top_influencers with days=", SubstOr(args, "days", 7),
              "\n",
              "- get_influence_network with days=", SubstOr(args, "days", 7),
              "\n">>
         \o When(args, "topic",
                 <<"- Filter results by topic=\"", Subst(args, "topic"), "\"">>)
         \o <<"\n">>
    [] name = "discover_connections" ->
         <<"# Connection Discovery", "\n">>
         \o When(args, "start_entity",
                 <<"### Starting from Entity: ", Subst(args, "start_entity")>>)
         \o <<"\n">>
         \o When(args, "start_channel",
                 <<"### Starting from Channel: ", Subst(args, "start_channel")>>)
         \o <<"\n">>
    [] OTHER -> <<"Unknown prompt: ", name>>

\* the request methods the server registers a handler for
RegisteredMethods == {"tools/list", "tools/call"}

\* the reply of the Server to a request whose method has no handler
MethodNotFound == [error |-> [message |-> "Method not found"]]

-----------------------------------------------------------------------------
(* README.md: the tool count each revision advertises and the tool names
   its feature lists give; and the names of the v1.0.0 catalog *)

\* "This MCP server provides **65 tools**"
ReadmeToolCount == 65

\* the first column of the tool tables of the README, in order
ReadmeTools ==
  <<"search_messages", "get_message", "get_message_album",
    "get_message_network", "get_message_timeline", "semantic_search",
    "find_similar_messages", "get_tags", "search_by_tags",
    "unified_search", "list_channels", "get_channel", "get_channel_stats",
    "get_channel_network", "get_message_social_graph",
    "get_channel_influence", "get_influence_network",
    "get_engagement_timeline", "get_message_comments",
    "get_top_forwarded", "get_top_influencers", "search_entities",
    "get_entity", "get_entity_relationships", "get_entity_mentions",
    "list_events", "get_event_stats", "get_event", "get_event_timeline",
    "get_events_for_message", "get_timeline_stats",
    "get_topic_distribution", "get_language_distribution",
    "get_channel_analytics", "get_activity_heatmap",
    "get_entity_analytics", "get_media_analytics", "get_map_messages",
    "get_map_clusters", "get_map_events", "get_map_heatmap",
    "suggest_locations", "reverse_geocode", "get_unified_stream",
    "validate_message", "get_message_correlations", "get_media_gallery",
    "get_platform_dashboard", "get_platform_stats_overview",
    "get_data_quality_stats", "get_processing_stats", "get_storage_stats",
    "get_worker_stats", "get_enrichment_tasks", "get_cache_stats",
    "get_audit_stats", "get_spam_stats", "get_channels_admin_stats",
    "get_entities_admin_stats", "get_rss_feeds_stats",
    "get_llm_prompts_stats", "get_viral_posts", "get_system_health",
    "get_hardware_config", "get_system_status", "get_metrics_overview",
    "get_metrics_llm", "get_metrics_pipeline", "get_metrics_services",
    "list_llm_models", "get_llm_model_health">>

\* the names of the tools array of the v1.0.0 index.ts, in source order
toolsV1 ==
  <<"search_messages", "get_message", "get_message_social_graph",
    "semantic_search", "find_similar_messages", "unified_search",
    "list_channels", "get_channel", "get_channel_stats",
    "get_channel_network", "search_entities", "get_entity",
    "get_entity_relationships", "get_entity_mentions", "list_events",
    "get_event", "get_event_messages", "get_timeline_stats",
    "get_topic_distribution", "get_channel_analytics", "get_map_messages",
    "get_map_clusters", "get_system_health", "get_system_status">>

\* "This MCP server provides **27 granular tools**"
ReadmeToolCountV1 == 27

\* the bullet items of the feature lists of the v1.0.0 README, in order
ReadmeToolsV1 ==
  <<"search_messages", "get_message", "get_message_social_graph",
    "semantic_search", "find_similar_messages", "unified_search",
    "list_channels", "get_channel", "get_channel_stats",
    "get_channel_network", "search_entities", "get_entity",
    "get_entity_relationships", "get_entity_mentions", "list_events",
    "get_event", "get_event_messages", "get_timeline_stats",
    "get_topic_distribution", "get_channel_analytics", "get_map_messages",
    "get_map_clusters", "get_system_health", "get_system_status">>

-----------------------------------------------------------------------------
(* Bounded inputs *)

\* the count of written responses saturates here
MaxServed == 1

EnvValues(v) == {Undefined, Str(<<v>>)}

\* process environments: the identity variables come with or without the
\* optional email and role; the API URL is unset in the empty environment
Envs ==
  {e \in [OSINT_API_URL : {Undefined, Str(<<"http://osint.example", "/">>)},
          OSINT_API_KEY : EnvValues("ak_1"),
          OSINT_JWT_TOKEN : EnvValues("jwt1"),
          OSINT_ORY_USER_ID : EnvValues("uuid1"),
          OSINT_ORY_USER_EMAIL : EnvValues("a@b"),
          OSINT_ORY_USER_ROLE : EnvValues("admin")] :
     /\ e.OSINT_ORY_USER_EMAIL = Undefined <=> e.OSINT_ORY_USER_ROLE = Undefined
     /\ e.OSINT_ORY_USER_ID = Undefined => e.OSINT_ORY_USER_EMAIL = Undefined
     /\ e.OSINT_API_URL = Undefined =>
          /\ e.OSINT_API_KEY = Undefined
          /\ e.OSINT_JWT_TOKEN = Undefined
          /\ e.OSINT_ORY_USER_ID = Undefined}

UnknownNames == {"frobnicate", "Search_Messages"}
RequestNames == CatalogNames \cup CaseNames \cup UnknownNames

Field(k, v) == [k |-> k, v |-> v]

\* request.params.arguments: omitted, or an object
ArgBags ==
  {Undefined,
   Obj(<<>>),
   Obj(<<Field("query", Str(<<"Bakhmut">>)), Field("days", Num(7))>>),
   Obj(<<Field("source", Str(<<"curated">>)),
         Field("entity_id", Str(<<"Q12345">>)),
         Field("include_linked", Bool(FALSE))>>),
   Obj(<<Field("message_id", Num(0)), Field("similarity_threshold", Num(0)),
         Field("limit", Null), Field("page_size", Num(1000)),
         Field("note", Str(<<"x">>)), Field("channel_id", Str(<<"seven">>)),
         Field("importance_level", Str(<<"urgent">>)),
         Field("tags", Str(<<>>)), Field("hours", Bool(TRUE))>>)}

BodyHealth == <<"{", "\"", "status", "\"", ":", "\"", "ok", "\"", "}">>
BodyList ==
  <<"{", " ", "\"", "items", "\"", ":", " ", "[", "1", ",", " ",
    "{", "\"", "id", "\"", ":", "1", "2", "}", ",", "-", "7", "]", ",", "\n",
    "\"", "next", "\"", ":", "null", ",",
    "\"", "text", "\"", ":", "\"", "a", "\\", "\"", "b", "\"", " ", "}">>
BodyFalse == <<"false">>
BodyNotFound == <<"not found">>
BodyEmpty == <<>>

\* configurations handed to new OsintApiClient by a direct user
LibConfigs ==
  [baseUrl : {Str(<<"http://h">>), Str(<<"http://h", "/">>)},
   jwtToken : {Undefined, Str(<<>>), Str(<<"jwt1">>)},
   apiKey : {Undefined, Str(<<>>), Str(<<"ak_1">>)},
   oryUserId : {Undefined, Str(<<>>), Str(<<"uuid1">>)},
   oryUserEmail : {Undefined, Str(<<"a@b">>)},
   oryUserRole : {Undefined, Str(<<"admin">>)}]

\* params arguments of get: none, or a map over the keys a and b
ParamValues ==
  {Undefined, Null, Bool(FALSE), Bool(TRUE), Num(0), Str(<<>>), Str(<<"x">>)}
ParamMaps ==
  {Undefined, Obj(<<>>)}
  \cup {Obj(<<Field("a", x), Field("b", y)>>) :
          x \in ParamValues, y \in {Undefined, Num(7)}}

\* body arguments of post
PostBodies == {Undefined, Num(0), Obj(<<Field("a", Num(1))>>)}

\* what an awaited fetch can settle to
FetchResults ==
  {Response(200, BodyHealth), Response(200, BodyList), Response(200, BodyFalse),
   Response(200, BodyNotFound), Response(204, BodyEmpty),
   Response(299, BodyHealth), Response(300, BodyEmpty),
   Response(404, BodyNotFound),
   Response(500, BodyEmpty), Rejected("fetch failed")}

-----------------------------------------------------------------------------
(* The server process *)

Idle ==
  [pc |-> "idle", name |-> "", args |-> Undefined, method |-> "",
   requests |-> <<>>, settled |-> None, outcome |-> None, response |-> None]

LibNew ==
  [pc |-> "new", impl |-> "", config |-> None, client |-> None,
   arg |-> None, request |-> None, settled |-> None, outcome |-> None]

\* main(): server.connect resolves, or it rejects and the process exits
MainConnected ==
  /\ proc.state = "starting"
  /\ proc' = [proc EXCEPT !.state = "running"]
  /\ UNCHANGED <<env, apiClient, inv, listed, lib, other>>

MainFailed ==
  /\ proc.state = "starting"
  /\ proc' = [proc EXCEPT !.state = "exited", !.exitCode = 1]
  /\ UNCHANGED <<env, apiClient, inv, listed, lib, other>>

\* a list-tools request
ListTools ==
  /\ proc.state = "running"
  /\ listed' = ListToolsResponse
  /\ UNCHANGED <<env, proc, apiClient, inv, lib, other>>

\* a request of a method index.ts registers no handler for
UnhandledRequest(request) ==
  /\ proc.state = "running"
  /\ request.method \notin RegisteredMethods
  /\ other' = [request |-> request, reply |-> MethodNotFound]
  /\ UNCHANGED <<env, proc, apiClient, inv, listed, lib>>

\* a call-tool request, run until its handler first suspends or returns
CallTool(i, name, args) ==
  /\ proc.state = "running"
  /\ inv[i].pc = "idle"
  /\ LET d == handleToolCall(apiClient, name, args)
     IN inv' = [inv EXCEPT ![i] =
                  IF d.throws
                  THEN [pc |-> "done", name |-> name, args |-> args,
                        method |-> "", requests |-> <<>>, settled |-> None,
                        outcome |-> d.outcome,
                        response |-> CallToolResponse(d.outcome)]
                  ELSE [pc |-> "awaiting", name |-> name, args |-> args,
                        method |-> d.method, requests |-> <<d.request>>,
                        settled |-> None, outcome |-> None, response |-> None]]
  /\ UNCHANGED <<env, proc, apiClient, listed, lib, other>>

\* a handler that sends the request once more after a failed fetch
FetchSettlesRetry(i, res) ==
  /\ inv[i].pc = "awaiting"
  /\ LET outcome == MethodResult(inv[i].method, res)
         failed == res.settled = "rejected" \/ ~ok(res.status)
     IN inv' = [inv EXCEPT ![i] =
                  IF failed /\ Len(@.requests) < 2
                  THEN [@ EXCEPT !.requests = Append(@, inv[i].requests[1])]
                  ELSE [@ EXCEPT !.pc = "done", !.settled = res,
                                 !.outcome = outcome,
                                 !.response = CallToolResponse(outcome)]]
  /\ UNCHANGED <<env, proc, apiClient, listed, lib, other>>

\* a handler that gives up on a failed remote call and answers nothing
FetchSettlesDropsFailure(i, res) ==
  /\ inv[i].pc = "awaiting"
  /\ LET outcome == MethodResult(inv[i].method, res)
     IN inv' = [inv EXCEPT ![i] =
                  IF res.settled = "rejected"
                  THEN Idle
                  ELSE [@ EXCEPT !.pc = "done", !.settled = res,
                                 !.outcome = outcome,
                                 !.response = CallToolResponse(outcome)]]
  /\ UNCHANGED <<env, proc, apiClient, listed, lib, other>>

\* handlers that keep the awaited result in one module-level variable: a
\* settled fetch completes every invocation that is waiting
FetchSettlesShared(i, res) ==
  /\ inv[i].pc = "awaiting"
  /\ LET outcome == MethodResult(inv[i].method, res)
     IN inv' = [j \in DOMAIN inv |->
                  IF inv[j].pc = "awaiting"
                  THEN [inv[j] EXCEPT !.pc = "done", !.settled = res,
                                      !.outcome = outcome,
                                      !.response = CallToolResponse(outcome)]
                  ELSE inv[j]]
  /\ UNCHANGED <<env, proc, apiClient, listed, lib, other>>

\* a handler without a catch: a failure of the awaited call ends the process
FetchSettlesFatal(i, res) ==
  /\ inv[i].pc = "awaiting"
  /\ LET outcome == MethodResult(inv[i].method, res)
     IN IF outcome.kind = "throw"
        THEN /\ proc' = [proc EXCEPT !.state = "exited", !.exitCode = 1]
             /\ inv' = inv
        ELSE /\ inv' = [inv EXCEPT ![i] =
                         [@ EXCEPT !.pc = "done", !.settled = res,
                                   !.outcome = outcome,
                                   !.response = CallToolResponse(outcome)]]
             /\ proc' = proc
  /\ UNCHANGED <<env, apiClient, listed, lib, other>>

\* the awaited fetch settles and the handler runs to its return
FetchSettles(i, res) ==
  /\ inv[i].pc = "awaiting"
  /\ LET outcome == MethodResult(inv[i].method, res)
     IN inv' = [inv EXCEPT ![i] =
                  [@ EXCEPT !.pc = "done", !.settled = res,
                            !.outcome = outcome,
                            !.response = CallToolResponse(outcome)]]
  /\ UNCHANGED <<env, proc, apiClient, listed, lib, other>>

\* the transport writes the response of a finished invocation
Deliver(i) ==
  /\ inv[i].pc = "done"
  /\ inv' = [inv EXCEPT ![i] = Idle]
  /\ proc' = [proc EXCEPT !.served = IF @ < MaxServed THEN @ + 1 ELSE @]
  /\ UNCHANGED <<env, apiClient, listed, lib, other>>

LibOff == [LibNew EXCEPT !.pc = "off"]

Init ==
  /\ env \in Envs
  /\ proc = [state |-> "starting", exitCode |-> 0, served |-> 0]
  /\ apiClient = OsintApiClient(IndexConfig(env))
  /\ inv = [i \in {1} |-> Idle]
  /\ listed = None
  /\ lib = LibOff
  /\ other = None

Next ==
  \/ MainConnected
  \/ MainFailed
  \/ ListTools
  \/ \E i \in DOMAIN inv, name \in RequestNames, args \in ArgBags :
       CallTool(i, name, args)
  \/ \E i \in DOMAIN inv, res \in FetchResults : FetchSettles(i, res)
  \/ \E i \in DOMAIN inv : Deliver(i)

Spec == Init /\ [][Next]_vars

-----------------------------------------------------------------------------
(* The API client used directly: construct, then get and post calls *)

\* new OsintApiClient(config), in either revision
LibConstruct(impl, config) ==
  /\ lib.pc = "new"
  /\ lib' = [lib EXCEPT !.pc = "ready", !.impl = impl, !.config = config,
                        !.client = IF impl = "v2" THEN OsintApiClient(config)
                                   ELSE OsintApiClientV1(config)]
  /\ UNCHANGED <<env, proc, apiClient, inv, listed, other>>

\* client.get(endpoint, params), up to the awaited fetch
LibGet(endpoint, params) ==
  /\ lib.pc \in {"ready", "settled"}
  /\ lib' = [lib EXCEPT !.pc = "awaiting", !.settled = None, !.outcome = None,
                        !.arg = params,
                        !.request = IF lib.impl = "v2"
                                    THEN get(lib.client, endpoint, params)
                                    ELSE getV1(lib.client, endpoint, params)]
  /\ UNCHANGED <<env, proc, apiClient, inv, listed, other>>

\* client.post(endpoint, body), up to the awaited fetch
LibPost(endpoint, body) ==
  /\ lib.pc \in {"ready", "settled"}
  /\ lib' = [lib EXCEPT !.pc = "awaiting", !.settled = None, !.outcome = None,
                        !.arg = body,
                        !.request = IF lib.impl = "v2"
                                    THEN post(lib.client, endpoint, body)
                                    ELSE postV1(lib.client, endpoint, body)]
  /\ UNCHANGED <<env, proc, apiClient, inv, listed, other>>

\* the awaited fetch settles and the call returns or throws
LibSettle(res) ==
  /\ lib.pc = "awaiting"
  /\ lib' = [lib EXCEPT
               !.pc = "settled", !.settled = res,
               !.outcome =
                 CASE lib.impl = "v2" /\ lib.request.method = "GET" ->
                        getResult(res)
                   [] lib.impl = "v2" /\ lib.request.method = "POST" ->
                        postResult(res)
                   [] lib.impl = "v1" /\ lib.request.method = "GET" ->
                        getResultV1(res)
                   [] OTHER -> postResultV1(res)]
  /\ UNCHANGED <<env, proc, apiClient, inv, listed, other>>

ClientInit ==
  /\ env = CHOOSE e \in Envs : e.OSINT_API_URL = Undefined
  /\ proc = [state |-> "off", exitCode |-> 0, served |-> 0]
  /\ apiClient = None
  /\ inv = <<>>
  /\ listed = None
  /\ lib = LibNew
  /\ other = None

ClientNext ==
  \/ \E impl \in {"v1", "v2"}, config \in LibConfigs : LibConstruct(impl, config)
  \/ \E params \in ParamMaps : LibGet("/api/messages", params)
  \/ \E body \in PostBodies : LibPost("/api/comments/7/translate", body)
  \/ \E res \in FetchResults : LibSettle(res)

ClientSpec == ClientInit /\ [][ClientNext]_vars

-----------------------------------------------------------------------------
(* The server with several call-tool invocations in flight, and with the
   requests for resources and prompts a connected client can send *)

\* the invocations that can be pending at once
MaxInFlight == 2

ConcNames == {"search_messages", "frobnicate"}

ConcBags ==
  {Undefined,
   Obj(<<Field("query", Str(<<"Bakhmut">>)), Field("days", Num(7))>>)}

ConcResults ==
  {Response(200, BodyHealth), Response(404, BodyNotFound),
   Rejected("fetch failed")}

ConcEnvs ==
  {e \in Envs : /\ e.OSINT_JWT_TOKEN = Undefined
                /\ e.OSINT_ORY_USER_ID = Undefined
                /\ e.OSINT_API_URL # Undefined => e.OSINT_API_KEY # Undefined}

\* requests for the resources and prompts tables
Request(method, key, arguments) ==
  [method |-> method, key |-> key, arguments |-> arguments]

OtherRequests ==
  {Request("resources/list", "", Undefined),
   Request("resources/read", "osint://reference/topics", Undefined),
   Request("prompts/list", "", Undefined),
   Request("prompts/get", "investigate_entity",
           Obj(<<Field("entity_name", Str(<<"Wagner">>))>>))}

ConcInit ==
  /\ env \in ConcEnvs
  /\ proc = [state |-> "starting", exitCode |-> 0, served |-> 0]
  /\ apiClient = OsintApiClient(IndexConfig(env))
  /\ inv = [i \in 1..MaxInFlight |-> Idle]
  /\ listed = None
  /\ lib = LibOff
  /\ other = None

ConcNext ==
  \/ MainConnected
  \/ MainFailed
  \/ ListTools
  \/ \E request \in OtherRequests : UnhandledRequest(request)
  \/ \E i \in DOMAIN inv, name \in ConcNames, args \in ConcBags :
       CallTool(i, name, args)
  \/ \E i \in DOMAIN inv, res \in ConcResults : FetchSettles(i, res)
  \/ \E i \in DOMAIN inv : Deliver(i)

ConcSpec == ConcInit /\ [][ConcNext]_vars

\* the same server when every outbound HTTP call eventually resolves or
\* rejects, and the transport writes every response the handler returns
LiveSpec ==
  /\ ConcInit
  /\ [][ConcNext]_vars
  /\ \A i \in 1..MaxInFlight :
       /\ WF_vars(\E res \in ConcResults : FetchSettles(i, res))
       /\ WF_vars(Deliver(i))

-----------------------------------------------------------------------------
(* Properties *)

Active == {i \in DOMAIN inv : inv[i].pc # "idle"}
Done == {i \in DOMAIN inv : inv[i].pc = "done"}

\* the labels of the switch, read off the case list
Labels == {handleToolCallCases[k].name : k \in 1..Len(handleToolCallCases)}

\* a response is one text block spelling text, flagged as an error or not
IsErrorResponse(r, text) ==
  /\ DOMAIN r = {"content", "isError"}
  /\ r.isError = TRUE
  /\ Len(r.content) = 1
  /\ r.content[1].type = "text"
  /\ Flatten(r.content[1].text) = text

UnknownToolError(i) ==
  /\ inv[i].pc = "done"
  /\ inv[i].outcome.kind = "throw"
  /\ inv[i].outcome.error.message = "Unknown tool: " \o inv[i].name

\* C1: the names the list-tools catalog advertises are exactly the names
\* handleToolCall has a case for: no name is listed twice, every listed name
\* has exactly one case, every case label is listed, and a call is answered
\* "Unknown tool" exactly when its name is not a listed one.
CatalogDispatcherBijection ==
  LET catalog == IF listed = None THEN tools ELSE listed.tools
      names == {catalog[k].name : k \in 1..Len(catalog)}
  IN /\ Cardinality(names) = Len(catalog)
     /\ Cardinality(Labels) = Len(handleToolCallCases)
     /\ names = Labels
     /\ \A i \in Active :
          /\ inv[i].pc = "awaiting" => inv[i].name \in names
          /\ inv[i].pc = "done" => (UnknownToolError(i) <=> inv[i].name \notin names)

CatalogDispatcherBijectionWitness ==
  /\ listed # None
  /\ \E i \in Done :
       /\ inv[i].name = "get_llm_model_health"
       /\ inv[i].outcome.kind = "return"

\* C2: a call-tool request for a name the dispatcher has no case for issues
\* no HTTP request and is answered by exactly one text block reading
\* "Error: Unknown tool: <name>" flagged isError; the process keeps running
\* and the response can be written and a further request accepted.
UnknownToolInBandError ==
  /\ \A i \in Active :
       inv[i].name \notin Labels =>
         /\ inv[i].pc = "done"
         /\ inv[i].requests = <<>>
         /\ inv[i].settled = None
         /\ IsErrorResponse(inv[i].response,
                            "Error: Unknown tool: " \o inv[i].name)
         /\ proc.state = "running"
         /\ ENABLED Deliver(i)
  /\ \A i \in DOMAIN inv :
       proc.served > 0 /\ inv[i].pc = "idle" =>
         ENABLED CallTool(i, "get_system_health", Undefined)

UnknownToolInBandErrorWitness ==
  /\ proc.served > 0
  /\ \E i \in Done :
       /\ inv[i].name = "frobnicate"
       /\ Flatten(inv[i].response.content[1].text)
            = "Error: Unknown tool: frobnicate"

\* the message of the error get and post throw on a non-2xx response
ApiErrorMessage(status, body) ==
  "API Error " \o ToString(status) \o ": " \o Flatten(body)

LibAnswered == lib.pc = "settled" /\ lib.settled.settled = "fulfilled"

\* C3: a get or post call of the API client (either revision) whose HTTP
\* response has a status outside 200..299 never returns a value: it throws an
\* error whose message is exactly "API Error <status>: <body>", the body
\* verbatim; with a status inside 200..299 it does not produce this error.
NonSuccessStatusThrowsApiError ==
  LibAnswered =>
    LET status == lib.settled.status
        body == lib.settled.body
        isApiError ==
          /\ lib.outcome.kind = "throw"
          /\ lib.outcome.error.message = ApiErrorMessage(status, body)
    IN /\ status \notin 200..299 => isApiError
       /\ status \in 200..299 => ~isApiError
       /\ status = 404 /\ body = <<"not found">> =>
            /\ lib.outcome.kind = "throw"
            /\ lib.outcome.error.message = "API Error 404: not found"

NonSuccessStatusThrowsApiErrorWitness ==
  /\ LibAnswered
  /\ lib.request.method = "POST"
  /\ lib.impl = "v1"
  /\ lib.settled.status = 500
  /\ lib.outcome.kind = "throw"
  /\ lib.outcome.error.message = "API Error 500: "

\* C4: a call-tool response is flagged isError exactly when the dispatcher or
\* the API client threw during the invocation; it then is exactly one text
\* block reading "Error: " followed by the failure's message (HTTP 404 with
\* body "not found" gives "Error: API Error 404: not found"); otherwise it is
\* exactly one unflagged text block with the result, never both.
ErrorFlagIffThrown ==
  \A i \in Done :
    LET r == inv[i].response
        threw == inv[i].outcome.kind = "throw"
    IN /\ ("isError" \in DOMAIN r) <=> threw
       /\ threw =>
            IsErrorResponse(r, "Error: " \o inv[i].outcome.error.message)
       /\ ~threw =>
            /\ DOMAIN r = {"content"}
            /\ Len(r.content) = 1
            /\ r.content[1].text = JSONstringify(inv[i].outcome.value, 2)
       /\ inv[i].settled = Response(404, <<"not found">>) =>
            IsErrorResponse(r, "Error: API Error 404: not found")

ErrorFlagIffThrownWitness ==
  \E i \in Done :
    /\ inv[i].name = "get_entity"
    /\ inv[i].settled = Response(404, <<"not found">>)
    /\ inv[i].response.isError = TRUE
    /\ Flatten(inv[i].response.content[1].text)
         = "Error: API Error 404: not found"

\* a known tool got a 2xx response whose body is JSON text
Succeeded(i) ==
  /\ inv[i].pc = "done"
  /\ inv[i].name \in Labels
  /\ inv[i].settled # None
  /\ inv[i].settled.settled = "fulfilled"
  /\ inv[i].settled.status \in 200..299
  /\ JSONparse(inv[i].settled.body).ok

\* C5: when a known tool gets a 2xx response with a JSON body, the call-tool
\* response is exactly one text block, not flagged as an error, whose text is
\* the 2-space pretty-printed JSON of the value parsed from the body; parsing
\* that text gives back the value the remote platform sent.
SuccessPassThrough ==
  \A i \in DOMAIN inv :
    Succeeded(i) =>
      LET r == inv[i].response
          body == inv[i].settled.body
      IN /\ DOMAIN r = {"content"}
         /\ Len(r.content) = 1
         /\ r.content[1].type = "text"
         /\ r.content[1].text = JSONstringify(JSONparse(body).v, 2)
         /\ JSONparse(r.content[1].text) = JSONparse(body)
         /\ body = BodyHealth =>
              Flatten(r.content[1].text) = "{\n  \"status\": \"ok\"\n}"

SuccessPassThroughWitness ==
  \E i \in DOMAIN inv :
    /\ Succeeded(i)
    /\ inv[i].name = "search_messages"
    /\ inv[i].settled.body = BodyList
    /\ JSONparse(inv[i].response.content[1].text).v
         = Obj(<<Field("items", Arr(<<Num(1), Obj(<<Field("id", Num(12))>>),
                                      Num(-7)>>)),
                 Field("next", Null),
                 Field("text", Str(<<"a", "\"", "b">>))>>)

IsSet(x) == x.t = "string" /\ Flatten(x.s) # ""

IdentityHeaders == {"X-User-ID", "X-User-Email", "X-User-Role"}

\* C6: the auth headers of a v2.0.0 client follow strict precedence: a JWT
\* gives Authorization "Bearer <jwt>" and no identity header; else an API key
\* gives Authorization "Bearer <apiKey>" and no identity header; else an
\* identity user id gives X-User-ID, with X-User-Email and X-User-Role only
\* when provided, and no Authorization; else no auth header at all.  Every
\* request carries exactly the headers so chosen.
AuthHeaderPrecedence ==
  lib.pc # "new" /\ lib.impl = "v2" =>
    LET c == lib.config
        h == lib.client.headers
    IN /\ IF IsSet(c.jwtToken)
          THEN /\ "Authorization" \in DOMAIN h
               /\ h["Authorization"] = "Bearer " \o Flatten(c.jwtToken.s)
               /\ DOMAIN h \cap IdentityHeaders = {}
          ELSE IF IsSet(c.apiKey)
          THEN /\ "Authorization" \in DOMAIN h
               /\ h["Authorization"] = "Bearer " \o Flatten(c.apiKey.s)
               /\ DOMAIN h \cap IdentityHeaders = {}
          ELSE IF IsSet(c.oryUserId)
          THEN /\ "Authorization" \notin DOMAIN h
               /\ "X-User-ID" \in DOMAIN h
               /\ h["X-User-ID"] = Flatten(c.oryUserId.s)
               /\ "X-User-Email" \in DOMAIN h <=> IsSet(c.oryUserEmail)
               /\ IsSet(c.oryUserEmail) =>
                    h["X-User-Email"] = Flatten(c.oryUserEmail.s)
               /\ "X-User-Role" \in DOMAIN h <=> IsSet(c.oryUserRole)
               /\ IsSet(c.oryUserRole) =>
                    h["X-User-Role"] = Flatten(c.oryUserRole.s)
          ELSE DOMAIN h \cap (IdentityHeaders \cup {"Authorization"}) = {}
       /\ lib.request # None => lib.request.headers = h

AuthHeaderPrecedenceWitness ==
  /\ lib.impl = "v2"
  /\ lib.pc = "awaiting"
  /\ lib.config.jwtToken = Str(<<>>)
  /\ lib.config.apiKey = Undefined
  /\ lib.config.oryUserEmail = Undefined
  /\ DOMAIN lib.request.headers
       = {"Accept", "Content-Type", "X-User-ID", "X-User-Role"}

\* C7: in every API client revision, a configuration with an API key and no
\* JWT sends the key as "Authorization: Bearer <apiKey>" on every request, and
\* under no other header name.
ApiKeySentAsBearer ==
  lib.pc # "new" /\ IsSet(lib.config.apiKey) /\ ~IsSet(lib.config.jwtToken) =>
    LET h == IF lib.request # None THEN lib.request.headers
             ELSE lib.client.headers
    IN /\ "Authorization" \in DOMAIN h
       /\ h["Authorization"] = "Bearer " \o Flatten(lib.config.apiKey.s)
       /\ \A n \in DOMAIN h \ {"Authorization"} :
            h[n] # Flatten(lib.config.apiKey.s)

\* C8: started with OSINT_ORY_USER_ID set and neither OSINT_JWT_TOKEN nor
\* OSINT_API_KEY, every outbound request of the server carries X-User-ID with
\* that value, and X-User-Email / X-User-Role when those variables are given.
OryIdentityReachesRequests ==
  IsSet(env.OSINT_ORY_USER_ID) /\ ~IsSet(env.OSINT_JWT_TOKEN)
  /\ ~IsSet(env.OSINT_API_KEY) =>
    \A i \in DOMAIN inv :
      \A k \in 1..Len(inv[i].requests) :
        LET h == inv[i].requests[k].headers
        IN /\ "X-User-ID" \in DOMAIN h
           /\ h["X-User-ID"] = Flatten(env.OSINT_ORY_USER_ID.s)
           /\ IsSet(env.OSINT_ORY_USER_EMAIL) =>
                /\ "X-User-Email" \in DOMAIN h
                /\ h["X-User-Email"] = Flatten(env.OSINT_ORY_USER_EMAIL.s)
           /\ IsSet(env.OSINT_ORY_USER_ROLE) =>
                /\ "X-User-Role" \in DOMAIN h
                /\ h["X-User-Role"] = Flatten(env.OSINT_ORY_USER_ROLE.s)

\* the string form the query string shows for a parameter value
Rendered(v) ==
  CASE v = Bool(FALSE) -> "false"
    [] v = Bool(TRUE) -> "true"
    [] v = Num(0) -> "0"
    [] v = Num(7) -> "7"
    [] v = Str(<<>>) -> ""
    [] v = Str(<<"x">>) -> "x"

\* C9: the query string of a GET has an entry for a key exactly when the
\* parameter map gives the key a value that is neither undefined nor null;
\* false, 0 and the empty string are included in their string form, and no
\* key appears that the map does not have (either client revision).
QueryOmitsOnlyUndefinedAndNull ==
  lib.request # None /\ lib.request.method = "GET" =>
    LET q == lib.request.query
        entries == IF lib.arg.t = "object" THEN lib.arg.o ELSE <<>>
        keys == {entries[j].k : j \in 1..Len(entries)}
        sent == {q[j].k : j \in 1..Len(q)}
    IN /\ sent \subseteq keys
       /\ Cardinality(sent) = Len(q)
       /\ \A k \in keys :
            k \in sent <=> Lookup(entries, k).t \notin {"undefined", "null"}
       /\ \A j \in 1..Len(q) : q[j].v = Rendered(Lookup(entries, q[j].k))
       /\ lib.arg = Obj(<<Field("a", Bool(FALSE)), Field("b", Num(7))>>) =>
            lib.request.url = "http://h/api/messages?a=false&b=7"

QueryOmitsOnlyUndefinedAndNullWitness ==
  /\ lib.pc = "awaiting"
  /\ lib.impl = "v1"
  /\ lib.arg = Obj(<<Field("a", Num(0)), Field("b", Undefined)>>)
  /\ lib.request.query = <<Field("a", "0")>>
  /\ lib.request.url = "http://h/api/messages?a=0"

\* the dispatcher reaches the client call of the case selected for the name
ReachesClient(i) ==
  /\ inv[i].name \in Labels
  /\ \/ inv[i].args.t = "object"
     \/ Reads(SelectedCase(inv[i].name)) = <<>>

ParamName(field) == IF field = "query" THEN "q" ELSE field

\* the text a supplied value has in a URL
Verbatim(v) ==
  CASE v.t = "string" -> Flatten(v.s)
    [] v.t = "number" -> ToString(v.n)
    [] v.t = "boolean" -> IF v.b THEN "true" ELSE "false"
    [] OTHER -> v.t

\* the fields of a bag
Fields(bag) == {bag[j].k : j \in 1..Len(bag)}

\* the descriptor the catalog lists under a name
Descriptor(name) ==
  tools[CHOOSE k \in 1..Len(tools) : tools[k].name = name]

\* the range of a sequence
Range(s) == {s[j] : j \in 1..Len(s)}

\* a known tool was invoked with an argument bag
Dispatched(i) ==
  /\ inv[i].pc # "idle"
  /\ inv[i].name \in Labels
  /\ inv[i].args.t = "object"

\* the bag of end-to-end scenario 2
BagBakhmut == Obj(<<Field("query", Str(<<"Bakhmut">>)), Field("days", Num(7))>>)

\* C11: for every known tool and every argument bag the dispatcher makes
\* exactly one client call, with one request; every query parameter of the
\* request is a field of the bag (query as q) with the bag's value verbatim,
\* so a field the bag lacks is no parameter and nothing is defaulted; every
\* declared non-path field the bag gives a value is sent. search_messages with
\* {query: "Bakhmut", days: 7} sends exactly q=Bakhmut and days=7.
BagValuesVerbatim ==
  \A i \in DOMAIN inv :
    Dispatched(i) =>
      LET bag == inv[i].args.o
          c == SelectedCase(inv[i].name)
          declared == Range(Descriptor(inv[i].name).properties)
      IN /\ Len(inv[i].requests) = 1
         /\ inv[i].method = c.method
         /\ LET q == inv[i].requests[1].query
            IN /\ Cardinality({q[j].k : j \in 1..Len(q)}) = Len(q)
               /\ \A j \in 1..Len(q) :
                    \E f \in Fields(bag) :
                      /\ ParamName(f) = q[j].k
                      /\ Lookup(bag, f).t \notin {"undefined", "null"}
                      /\ q[j].v = Verbatim(Lookup(bag, f))
               /\ \A f \in (Fields(bag) \cap declared) \ Range(c.positional) :
                    Lookup(bag, f).t \notin {"undefined", "null"} =>
                      \E j \in 1..Len(q) :
                        /\ q[j].k = ParamName(f)
                        /\ q[j].v = Verbatim(Lookup(bag, f))
               /\ inv[i].name = "search_messages" /\ inv[i].args = BagBakhmut =>
                    /\ Range(q) = {Field("q", "Bakhmut"), Field("days", "7")}
                    /\ inv[i].requests[1].method = "GET"
                    /\ inv[i].requests[1].url =
                         Flatten(apiClient.baseUrl)
                         \o "/api/messages?q=Bakhmut&days=7"

BagValuesVerbatimWitness ==
  \E i \in DOMAIN inv :
    /\ inv[i].pc = "awaiting"
    /\ inv[i].name = "search_messages"
    /\ inv[i].args = BagBakhmut
    /\ env.OSINT_API_URL # Undefined
    /\ inv[i].requests[1].url
         = "http://osint.example/api/messages?q=Bakhmut&days=7"

\* C12: the dispatcher forwards only fields that the tool's catalog
\* inputSchema declares: every query parameter of a request is a declared
\* property of the invoked tool (query as q); for get_message_timeline only
\* before_count, after_count, same_channel_only, use_semantic and use_events
\* can be query parameters, message_id being the path.
OnlyDeclaredFieldsForwarded ==
  \A i \in DOMAIN inv :
    Dispatched(i) /\ inv[i].requests # <<>> =>
      LET q == inv[i].requests[1].query
          declared == Range(Descriptor(inv[i].name).properties)
      IN /\ \A j \in 1..Len(q) : \E f \in declared : ParamName(f) = q[j].k
         /\ inv[i].name = "get_message_timeline" =>
              {q[j].k : j \in 1..Len(q)} \subseteq
                {"before_count", "after_count", "same_channel_only",
                 "use_semantic", "use_events"}

\* a bag whose values break the declared schemas: page_size above the
\* documented maximum of 100, importance_level outside its enum, channel_id
\* and hours of the wrong primitive type, and no required field of most tools
BagInvalid ==
  Obj(<<Field("message_id", Num(0)), Field("similarity_threshold", Num(0)),
        Field("limit", Null), Field("page_size", Num(1000)),
        Field("note", Str(<<"x">>)), Field("channel_id", Str(<<"seven">>)),
        Field("importance_level", Str(<<"urgent">>)),
        Field("tags", Str(<<>>)), Field("hours", Bool(TRUE))>>)

\* the required fields the bag of an invocation lacks
MissingRequired(i) ==
  Range(Descriptor(inv[i].name).required) \ Fields(inv[i].args.o)

\* C13: no invocation of a known tool with an argument bag is rejected
\* locally for its values: whatever the bag holds (out-of-range number, string
\* outside the enum, wrong primitive type, required field missing) exactly one
\* request goes out, it carries the supplied values as given, and an error
\* response can only come from the remote call's outcome.
NoLocalValidation ==
  \A i \in DOMAIN inv :
    Dispatched(i) =>
      /\ Len(inv[i].requests) = 1
      /\ inv[i].pc = "done" =>
           /\ inv[i].settled # None
           /\ inv[i].outcome = MethodResult(inv[i].method, inv[i].settled)
      /\ inv[i].name = "search_messages" /\ inv[i].args = BagInvalid =>
           Range(inv[i].requests[1].query) =
             {Field("page_size", "1000"), Field("channel_id", "seven"),
              Field("importance_level", "urgent")}
      /\ inv[i].name = "get_message" /\ MissingRequired(i) # {} =>
           inv[i].requests[1].path = "/api/messages/undefined"

NoLocalValidationWitness ==
  \E i \in DOMAIN inv :
    /\ inv[i].pc = "done"
    /\ inv[i].name = "search_messages"
    /\ inv[i].args = BagInvalid
    /\ inv[i].settled = Response(200, BodyList)
    /\ inv[i].outcome.kind = "return"
    /\ inv[i].requests[1].url =
         Flatten(apiClient.baseUrl)
         \o "/api/messages?channel_id=seven&importance_level=urgent&page_size=1000"

\* a required field is missing and the request goes out all the same
NoLocalValidationMissingRequired ==
  \E i \in DOMAIN inv :
    /\ inv[i].pc = "awaiting"
    /\ inv[i].name = "get_entity"
    /\ inv[i].args = BagBakhmut
    /\ MissingRequired(i) = {"source", "entity_id"}
    /\ inv[i].requests[1].path = "/api/entities/undefined/undefined"

\* the bag of end-to-end scenario 3, with the optional flag
BagEntity ==
  Obj(<<Field("source", Str(<<"curated">>)),
        Field("entity_id", Str(<<"Q12345">>)),
        Field("include_linked", Bool(FALSE))>>)

\* the path suffix and the query parameters of the three entity tools
EntitySuffix(name) ==
  CASE name = "get_entity" -> ""
    [] name = "get_entity_relationships" -> "/relationships"
    [] name = "get_entity_mentions" -> "/messages"

EntityParams(name) ==
  CASE name = "get_entity" -> {"include_linked"}
    [] name = "get_entity_relationships" -> {"refresh"}
    [] name = "get_entity_mentions" -> {"limit"}

EntityTools == {"get_entity", "get_entity_relationships", "get_entity_mentions"}

\* C14: get_entity with source S and entity_id E issues one GET whose path
\* is /api/entities/S/E, source first, with include_linked as the only
\* possible query parameter; get_entity_relationships and get_entity_mentions
\* put S and E in the same order before /relationships and /messages.
EntityPathInterpolation ==
  \A i \in DOMAIN inv :
    Dispatched(i) /\ inv[i].name \in EntityTools =>
      LET bag == inv[i].args.o
          S == Verbatim(Lookup(bag, "source"))
          E == Verbatim(Lookup(bag, "entity_id"))
      IN /\ Len(inv[i].requests) = 1
         /\ LET r == inv[i].requests[1]
            IN /\ r.method = "GET"
               /\ r.path = "/api/entities/" \o S \o "/" \o E
                           \o EntitySuffix(inv[i].name)
               /\ {r.query[j].k : j \in 1..Len(r.query)}
                    \subseteq EntityParams(inv[i].name)
               /\ inv[i].name = "get_entity" /\ inv[i].args = BagEntity =>
                    /\ r.path = "/api/entities/curated/Q12345"
                    /\ r.query = <<Field("include_linked", "false")>>

EntityPathInterpolationWitness ==
  \E i \in DOMAIN inv :
    /\ inv[i].pc = "awaiting"
    /\ inv[i].name = "get_entity_mentions"
    /\ inv[i].args = BagEntity
    /\ inv[i].requests[1].path = "/api/entities/curated/Q12345/messages"
    /\ inv[i].requests[1].query = <<>>

\* the tools whose inputSchema declares no properties
NoArgumentTools ==
  {tools[k].name : k \in {j \in 1..Len(tools) : tools[j].properties = <<>>}}

\* C15: a tool whose schema declares no properties issues exactly one GET
\* to its fixed path with an empty query string, whatever the argument bag
\* holds and also when the arguments are omitted, and on a 2xx JSON response
\* returns the parsed body; get_system_health goes to /health.
NoArgumentToolFixedRequest ==
  \A i \in DOMAIN inv :
    inv[i].pc # "idle" /\ inv[i].name \in NoArgumentTools =>
      /\ Len(inv[i].requests) = 1
      /\ LET r == inv[i].requests[1]
             fixed == handleToolCall(apiClient, inv[i].name, Obj(<<>>)).request
         IN /\ r.method = "GET"
            /\ r.query = <<>>
            /\ r.path = fixed.path
            /\ r.url = Flatten(apiClient.baseUrl) \o r.path
            /\ inv[i].name = "get_system_health" => r.path = "/health"
      /\ Succeeded(i) =>
           inv[i].outcome = Return(JSONparse(inv[i].settled.body).v)

NoArgumentToolFixedRequestWitness ==
  \E i \in DOMAIN inv :
    /\ Succeeded(i)
    /\ inv[i].name = "get_system_health"
    /\ inv[i].args = Undefined
    /\ env.OSINT_API_URL = Undefined
    /\ inv[i].requests[1].url = "http://localhost:8000/health"
    /\ inv[i].settled.body = BodyHealth
    /\ inv[i].outcome.value = Obj(<<Field("status", Str(<<"ok">>))>>)

\* the process has exited before it served anything
ExitedAtStartup ==
  /\ proc.exitCode = 1
  /\ proc.served = 0
  /\ listed = None
  /\ \A i \in DOMAIN inv : inv[i] = Idle

\* C16: once the transport is connected no list-tools or call-tool request
\* ends the process: a running server stays running through every step, each
\* failed invocation (unknown name, unreadable bag, HTTP error status, network
\* exception) ends in an in-band error response, and the process is in its
\* exited state, with status 1, only when the initial connect failed before
\* any request was handled.
RequestsNeverTerminateServer ==
  /\ [](/\ proc.state = "exited" => ExitedAtStartup
        /\ proc.state # "exited" => proc.exitCode = 0
        /\ Active # {} => proc.state = "running"
        /\ \A i \in Done :
             inv[i].outcome.kind = "throw" =>
               IsErrorResponse(inv[i].response,
                               "Error: " \o inv[i].outcome.error.message))
  /\ [][/\ proc.state = "running" => proc'.state = "running"
        /\ proc'.state = "exited" => proc.state \in {"starting", "exited"}]_vars

RequestsNeverTerminateServerWitness ==
  /\ proc.state = "running"
  /\ proc.served > 0
  /\ listed # None
  /\ \E i \in Done :
       /\ inv[i].name = "get_message"
       /\ inv[i].args = Undefined
       /\ inv[i].outcome.error.name = "TypeError"
       /\ inv[i].response.isError = TRUE

\* C17: a list-tools request is always answered, and always with the full
\* static catalog: the response is the 71 descriptors of tools in source
\* order, whatever list-tools and call-tool requests (successful or failed)
\* came before; no step changes a response already given other than a new
\* list-tools request giving the same catalog again.
CatalogStatic ==
  /\ [](/\ listed # None =>
             /\ DOMAIN listed = {"tools"}
             /\ listed.tools = tools
             /\ Len(listed.tools) = 71
             /\ listed.tools[1].name = "search_messages"
        /\ proc.state = "running" => ENABLED ListTools)
  /\ [][listed' # listed => listed' = [tools |-> tools]]_vars

CatalogStaticWitness ==
  /\ listed = [tools |-> tools]
  /\ proc.served > 0
  /\ \E i \in Done :
       /\ inv[i].name = "frobnicate"
       /\ inv[i].outcome.kind = "throw"

\* the response an invocation must give, from its own tool name, its own
\* arguments and its own HTTP response alone
OwnResponse(i) ==
  LET d == handleToolCall(apiClient, inv[i].name, inv[i].args)
  IN IF d.throws
     THEN CallToolResponse(d.outcome)
     ELSE CallToolResponse(MethodResult(d.method, inv[i].settled))

\* results a waiting invocation is probed with: a success, an HTTP error and
\* a network failure
SettleProbes ==
  {Response(200, BodyFalse), Response(404, BodyNotFound),
   Rejected("fetch failed")}

\* C18: with several call-tool invocations in flight, every finished
\* invocation's response is the one its own name, arguments and HTTP response
\* determine; a pending remote call blocks nothing: any waiting invocation can
\* be settled next with any result (so responses complete in any order), a
\* free slot accepts a new call and a finished one can be written; and a step
\* of one invocation leaves every other invocation as it was.
InvocationsIndependent ==
  /\ [](\A i \in DOMAIN inv :
          /\ inv[i].pc = "done" => inv[i].response = OwnResponse(i)
          /\ inv[i].pc = "awaiting" =>
               \A res \in SettleProbes : ENABLED FetchSettles(i, res)
          /\ inv[i].pc = "done" => ENABLED Deliver(i)
          /\ inv[i].pc = "idle" /\ proc.state = "running" =>
               ENABLED CallTool(i, "frobnicate", Undefined))
  /\ [][\A i, j \in DOMAIN inv :
          i # j /\ inv'[i] # inv[i] => inv'[j] = inv[j]]_vars

\* the second invocation has finished while the first still waits
InvocationsIndependentWitness ==
  /\ inv[1].pc = "awaiting"
  /\ inv[1].name = "search_messages"
  /\ inv[2].pc = "done"
  /\ inv[2].name = "search_messages"
  /\ inv[2].settled = Response(404, BodyNotFound)
  /\ Flatten(inv[2].response.content[1].text)
       = "Error: API Error 404: not found"

\* C19: a dispatched call-tool request whose HTTP call eventually resolves
\* or rejects eventually has a response and the response is eventually
\* written; while the call is pending the invocation does nothing but wait
\* (no timeout, no cancellation: it leaves the waiting state only by the
\* settled call, with a response), and a finished invocation keeps its one
\* response unchanged until it is written.
EveryCallAnswered ==
  /\ \A i \in 1..MaxInFlight :
       /\ (inv[i].pc = "awaiting") ~> (inv[i].pc = "done")
       /\ (inv[i].pc = "done") ~> (inv[i].pc = "idle")
  /\ [][\A i \in DOMAIN inv :
          /\ inv[i].pc = "awaiting" /\ inv'[i] # inv[i] =>
               /\ inv'[i].pc = "done"
               /\ inv'[i].settled # None
               /\ inv'[i].response = CallToolResponse(inv'[i].outcome)
          /\ inv[i].pc = "done" /\ inv'[i] # inv[i] =>
               /\ inv'[i] = Idle
               /\ proc'.served >= proc.served
          /\ inv[i].pc = "idle" /\ inv'[i] # inv[i] =>
               /\ inv'[i].pc \in {"awaiting", "done"}
               /\ inv'[i].pc = "done" => inv'[i].response # None]_vars

EveryCallAnsweredWitness ==
  /\ proc.served > 0
  /\ \E i \in DOMAIN inv :
       /\ inv[i].pc = "done"
       /\ inv[i].name = "search_messages"
       /\ inv[i].settled = Rejected("fetch failed")
       /\ inv[i].response.isError = TRUE

\* the reply a server that serves the two tables gives to a request
TableReply(request) ==
  CASE request.method = "resources/list" -> [resources |-> resources]
    [] request.method = "resources/read" ->
         [contents |-> <<[uri |-> request.key,
                          text |-> getResourceContent(request.key)]>>]
    [] request.method = "prompts/list" -> [prompts |-> prompts]
    [] request.method = "prompts/get" ->
         [messages |-> <<[role |-> "user",
                          text |-> getPromptContent(request.key,
                                                    request.arguments)]>>]

\* C20: the running server answers the requests for the static resources
\* and the templated prompts: a list request is answered with the table and
\* a read / get request with the content getResourceContent /
\* getPromptContent produce for the URI or the prompt name and arguments,
\* never with an error.
ResourcesAndPromptsServed ==
  other # None =>
    /\ "error" \notin DOMAIN other.reply
    /\ other.reply = TableReply(other.request)

\* C21: the catalog list-tools serves has as many tools as the README
\* advertises for the revision, 65 for v2.0.0 and 27 for v1.0.0, and its
\* names are exactly the names the README lists.
CatalogMatchesReadme ==
  listed # None =>
    /\ Len(listed.tools) = ReadmeToolCount
    /\ {listed.tools[k].name : k \in 1..Len(listed.tools)} = Range(ReadmeTools)
    /\ Len(toolsV1) = ReadmeToolCountV1
    /\ Range(toolsV1) = Range(ReadmeToolsV1)

\* what does hold: the names agree, the advertised counts do not
CatalogNamesMatchReadme ==
  /\ listed # None =>
       /\ Len(listed.tools) = 71
       /\ Len(ReadmeTools) = 71
       /\ {listed.tools[k].name : k \in 1..Len(listed.tools)}
            = Range(ReadmeTools)
  /\ Len(toolsV1) = 24
  /\ Len(ReadmeToolsV1) = 24
  /\ Range(toolsV1) = Range(ReadmeToolsV1)

(* The lookups of resources.ts and prompts.ts used directly: each step calls
   getResourceContent or getPromptContent on a key and, for a prompt, a bag of
   string arguments, and the variable other keeps the call and the text it
   returned. *)

UnknownUris == {"osint://reference/nope", ""}

UnknownPrompts == {"frobnicate_prompt", "Investigate_Entity"}

ResourceUris == Range(resources) \cup UnknownUris

PromptNames == Range(prompts) \cup UnknownPrompts

\* a value with characters that an escaping renderer would rewrite
Markup == Str(<<"\"", "<b>", "&">>)

PromptBags ==
  {Obj(<<>>),
   Obj(<<Field("entity_name", Str(<<"Wagner">>))>>),
   Obj(<<Field("entity_name", Str(<<"Wagner">>)),
         Field("entity_type", Str(<<"organization">>))>>),
   Obj(<<Field("entity_name", Markup), Field("entity_type", Str(<<>>))>>),
   Obj(<<Field("message_id", Str(<<"42">>))>>),
   Obj(<<Field("message_id", Str(<<"42">>)),
         Field("search_query", Str(<<"grain deal">>))>>),
   Obj(<<Field("event_id", Str(<<"9">>)),
         Field("search_query", Markup)>>),
   Obj(<<Field("channel_id", Str(<<"100">>))>>),
   Obj(<<Field("hours", Str(<<"48">>)),
         Field("focus_topic", Str(<<"combat">>))>>),
   Obj(<<Field("hours", Str(<<>>)), Field("focus_topic", Str(<<>>))>>),
   Obj(<<Field("location", Str(<<"Bakhmut">>)), Field("days", Str(<<"3">>))>>),
   Obj(<<Field("location", Markup)>>),
   Obj(<<Field("days", Str(<<"30">>)), Field("topic", Str(<<"equipment">>))>>),
   Obj(<<Field("start_entity", Str(<<"Prigozhin">>)),
         Field("start_channel", Str(<<"100">>))>>)}

ReadResource(uri) ==
  /\ other' = [request |-> Request("getResourceContent", uri, Undefined),
               reply |-> getResourceContent(uri)]
  /\ UNCHANGED <<env, proc, apiClient, inv, listed, lib>>

GetPrompt(name, args) ==
  /\ other' = [request |-> Request("getPromptContent", name, args),
               reply |-> getPromptContent(name, args)]
  /\ UNCHANGED <<env, proc, apiClient, inv, listed, lib>>

TableInit ==
  /\ env = CHOOSE e \in Envs : e.OSINT_API_URL = Undefined
  /\ proc = [state |-> "off", exitCode |-> 0, served |-> 0]
  /\ apiClient = None
  /\ inv = <<>>
  /\ listed = None
  /\ lib = LibOff
  /\ other = None

TableNext ==
  \/ \E uri \in ResourceUris : ReadResource(uri)
  \/ \E name \in PromptNames : \E args \in PromptBags : GetPrompt(name, args)

TableSpec == TableInit /\ [][TableNext]_vars

\* the number of places of a text that hold the given piece
Occurs(text, piece) == Cardinality({k \in 1..Len(text) : text[k] = piece})

\* C22: getResourceContent on a URI that is not in the table returns the text
\* "Resource not found: <uri>", getPromptContent on a name that is not in the
\* table returns "Unknown prompt: <name>", and a key of the table never gets
\* that text.
UnknownKeyNamed ==
  other # None =>
    /\ other.request.method = "getResourceContent" =>
         ((other.request.key \notin Range(resources))
            <=> (Flatten(other.reply)
                   = "Resource not found: " \o other.request.key))
    /\ other.request.method = "getPromptContent" =>
         ((other.request.key \notin Range(prompts))
            <=> (Flatten(other.reply) = "Unknown prompt: " \o other.request.key))

UnknownKeyNamedWitness ==
  /\ other # None
  /\ other.request.method = "getResourceContent"
  /\ other.request.key = "osint://reference/nope"
  /\ Flatten(other.reply) = "Resource not found: osint://reference/nope"

\* the arguments the prompt of the given name declares
DeclaredArguments(name) ==
  promptArguments[CHOOSE k \in 1..Len(prompts) : prompts[k] = name]

\* how many interpolations of a template read the argument
TemplateUses(name, key) ==
  CASE name = "investigate_entity" /\ key = "entity_name" -> 3
    [] name = "validate_claim" /\ key = "message_id" -> 3
    [] name = "analyze_channel" /\ key = "channel_id" -> 3
    [] name = "geographic_sitrep" /\ key = "location" -> 4
    [] name = "geographic_sitrep" /\ key = "days" -> 2
    [] name = "find_viral_content" /\ key = "days" -> 4
    [] name = "track_event" /\ key = "event_id" -> 2
    [] name = "trace_narrative" /\ key = "message_id" -> 2
    [] name = "daily_briefing" /\ key = "focus_topic" -> 2
    [] name = "find_viral_content" /\ key = "topic" -> 2
    [] OTHER -> 1

\* the fallback a template documents for an optional argument, if any
DocumentedDefault(key) ==
  CASE key = "hours" -> "24"
    [] key = "days" -> "7"
    [] OTHER -> ""

\* the fixed text that opens each section a template renders only when the
\* optional argument is set
SectionLeads(name, key) ==
  CASE name = "investigate_entity" /\ key = "entity_type" ->
         {", entity_type=\""}
    [] name = "track_event" /\ key = "event_id" ->
         {": Event #", "- get_event with event_id="}
    [] name = "track_event" /\ key = "search_query" ->
         {"- list_events with search=\""}
    [] name = "trace_narrative" /\ key = "message_id" ->
         {": Starting from Message #", "- get_message with message_id="}
    [] name = "trace_narrative" /\ key = "search_query" ->
         {"- semantic_search with query=\""}
    [] name = "daily_briefing" /\ key = "focus_topic" ->
         {"- **Focus Topic**: ", ", topic=\""}
    [] name = "find_viral_content" /\ key = "topic" ->
         {"- **Topic Filter**: ", "- Filter results by topic=\""}
    [] name = "discover_connections" /\ key = "start_entity" ->
         {"### Starting from Entity: "}
    [] name = "discover_connections" /\ key = "start_channel" ->
         {"### Starting from Channel: "}
    [] OTHER -> {}

\* the expansion of a known prompt that the variable other holds
Expanded ==
  /\ other # None
  /\ other.request.method = "getPromptContent"
  /\ other.request.key \in Range(prompts)

\* C23: the expansion of a known prompt is a text whatever the bag holds; a
\* supplied value stands, character for character, at every interpolation
\* of its argument; a missing required argument stands there as the text
\* undefined; a missing optional argument leaves its section out, or stands
\* as 24 for hours and 7 for days, and puts no undefined into the text.
ExpansionLiteral ==
  Expanded =>
    LET name == other.request.key
        args == other.request.arguments
        text == other.reply
        decl == DeclaredArguments(name)
        missing(k) == Arg(args, decl[k].name).t = "undefined"
    IN /\ \A k \in 1..Len(text) : text[k] \in STRING
       /\ \A k \in 1..Len(decl) :
            LET key == decl[k].name
                v == Arg(args, key)
            IN /\ Truthy(v) =>
                    /\ Occurs(text, Flatten(v.s)) = TemplateUses(name, key)
                    /\ \A lead \in SectionLeads(name, key) :
                         Occurs(text, lead) = 1
               /\ (missing(k) /\ decl[k].required) =>
                    Occurs(text, "undefined") = TemplateUses(name, key)
               /\ (~Truthy(v) /\ ~decl[k].required) =>
                    /\ \A lead \in SectionLeads(name, key) :
                         Occurs(text, lead) = 0
                    /\ DocumentedDefault(key) # "" =>
                         Occurs(text, DocumentedDefault(key))
                           = TemplateUses(name, key)
       /\ (\A k \in 1..Len(decl) : decl[k].required => ~missing(k)) =>
            Occurs(text, "undefined") = 0

\* geographic_sitrep expanded from the empty bag: location is undefined at
\* its four places and days is 7 at its two
ExpansionLiteralWitness ==
  /\ Expanded
  /\ other.request.key = "geographic_sitrep"
  /\ other.request.arguments = Obj(<<>>)
  /\ Occurs(other.reply, "undefined") = 4
  /\ Occurs(other.reply, "7") = 2

\* the client object the constructor of the revision in use builds
Constructed ==
  IF lib.impl = "v2" THEN OsintApiClient(lib.config)
  ELSE OsintApiClientV1(lib.config)

\* C24: once constructed, the client keeps the header set and the base URL
\* the constructor computed, whatever get and post calls are made and however
\* they settle, and every request carries exactly that header set, with
\* Content-Type and Accept set to application/json.
HeadersFixed ==
  /\ [](lib.pc \notin {"off", "new"} =>
          /\ lib.client = Constructed
          /\ lib.request # None =>
               /\ lib.request.headers = lib.client.headers
               /\ lib.request.headers["Content-Type"] = "application/json"
               /\ lib.request.headers["Accept"] = "application/json")
  /\ [][lib.pc \notin {"off", "new"} =>
          /\ lib'.client = lib.client
          /\ lib'.config = lib.config]_vars

\* a post in flight that carries the bearer header of the construction
HeadersFixedWitness ==
  /\ lib.pc = "awaiting"
  /\ lib.impl = "v2"
  /\ lib.config.jwtToken = Str(<<"jwt1">>)
  /\ lib.request.method = "POST"
  /\ lib.request.headers["Authorization"] = "Bearer jwt1"
  /\ lib.request.headers = lib.client.headers

(* The client constructed over base URLs with no, one and two trailing
   slashes. *)

UrlConfigs ==
  [baseUrl : {Str(<<"http://h">>), Str(<<"http://h", "/">>),
              Str(<<"http://h", "/", "/">>)},
   jwtToken : {Undefined},
   apiKey : {Undefined, Str(<<"ak_1">>)},
   oryUserId : {Undefined},
   oryUserEmail : {Undefined},
   oryUserRole : {Undefined}]

UrlNext ==
  \/ \E impl \in {"v1", "v2"}, config \in UrlConfigs : LibConstruct(impl, config)
  \/ \E params \in ParamMaps : LibGet("/api/messages", params)
  \/ \E body \in PostBodies : LibPost("/api/comments/7/translate", body)
  \/ \E res \in SettleProbes : LibSettle(res)

UrlSpec == ClientInit /\ [][UrlNext]_vars

\* C25: the base URL the client stores does not end with a slash, so that a
\* request URL is the configured base without its trailing slashes, then the
\* endpoint path, then the query string.
BaseUrlNormalized ==
  lib.pc \notin {"off", "new"} =>
    /\ lib.client.baseUrl # <<>> =>
         lib.client.baseUrl[Len(lib.client.baseUrl)] # "/"
    /\ lib.request # None =>
         lib.request.url
           = "http://h" \o lib.request.path \o Search(lib.request.query)

\* what does hold: the stored base URL is the configured one less one
\* trailing slash, if it has any
BaseUrlOneSlashStripped ==
  lib.pc \notin {"off", "new"} =>
    lib.client.baseUrl = StripTrailingSlash(lib.config.baseUrl.s)

\* the HTTP method and the path template of the endpoint a tool is bound to
ToolEndpoint(name) ==
  LET e == Method(SelectedCase(name).method)
  IN <<e.verb, e.path>>

ToolEndpoints == {ToolEndpoint(name) : name \in Labels}

\* the tables alone: one case per label, one client method per case, and as
\* many different endpoints as labels
BindingsOneToOne ==
  /\ Cardinality(Labels) = Len(handleToolCallCases)
  /\ \A name \in Labels :
       Cardinality({k \in 1..Len(EndpointMethods) :
                      EndpointMethods[k].name = SelectedCase(name).method}) = 1
  /\ Cardinality(ToolEndpoints) = Cardinality(Labels)

\* C26: each tool name has one case in the dispatcher, the case calls one
\* client method and the call makes one request, to the endpoint of that
\* method; no two tool names are bound to the same pair of HTTP method and
\* path template.
OneEndpointPerTool ==
  /\ BindingsOneToOne
  /\ \A i \in DOMAIN inv :
       Dispatched(i) =>
         LET c == SelectedCase(inv[i].name)
             e == Method(c.method)
         IN /\ inv[i].method = c.method
            /\ Len(inv[i].requests) = 1
            /\ inv[i].requests[1].method = e.verb
            /\ inv[i].requests[1].path =
                 Interpolate(e.path, [j \in 1..Len(c.positional) |->
                                        Arg(inv[i].args, c.positional[j])])

\* get_message_album and get_message called with the same bag request
\* different paths
OneEndpointPerToolWitness ==
  \E i \in Done :
    /\ inv[i].name = "get_message_album"
    /\ inv[i].args.t = "object"
    /\ Arg(inv[i].args, "message_id") = Num(0)
    /\ inv[i].requests[1].path = "/api/messages/0/album"
    /\ ToolEndpoint("get_message")[2] # ToolEndpoint("get_message_album")[2]

\* a known tool whose case reads a field was invoked without a bag
BagOmitted(i) ==
  /\ inv[i].pc # "idle"
  /\ inv[i].name \in Labels
  /\ inv[i].args = Undefined
  /\ Reads(SelectedCase(inv[i].name)) # <<>>

\* C27: a call of a known tool that omits the arguments, where the tool's
\* case reads a field, throws a TypeError on the first field it reads: no
\* client method is called, no request is made, and the response is the
\* in-band error with isError, the server running on.
OmittedBagFailsBeforeClient ==
  \A i \in DOMAIN inv :
    BagOmitted(i) =>
      /\ inv[i].pc = "done"
      /\ inv[i].requests = <<>>
      /\ inv[i].settled = None
      /\ inv[i].outcome.kind = "throw"
      /\ inv[i].outcome.error.name = "TypeError"
      /\ IsErrorResponse(
           inv[i].response,
           "Error: Cannot read properties of undefined (reading '"
             \o Head(Reads(SelectedCase(inv[i].name))) \o "')")
      /\ proc.state = "running"

OmittedBagFailsBeforeClientWitness ==
  \E i \in DOMAIN inv :
    /\ BagOmitted(i)
    /\ inv[i].name = "get_entity"
    /\ inv[i].requests = <<>>
    /\ IsErrorResponse(
         inv[i].response,
         "Error: Cannot read properties of undefined (reading 'source')")

\* the request of a known tool was answered with a status of the success
\* range and a body that is not JSON
NonJsonSuccess(i) ==
  /\ inv[i].pc = "done"
  /\ inv[i].name \in Labels
  /\ inv[i].settled # None
  /\ inv[i].settled.settled = "fulfilled"
  /\ inv[i].settled.status \in 200..299
  /\ ~JSONparse(inv[i].settled.body).ok

\* C28: a response with a 2xx status whose body is not valid JSON, the empty
\* body of a 204 included, makes the client call throw a SyntaxError; the
\* call-tool response is the in-band error with isError and the invocation
\* has made its one request and no other.
NonJsonSuccessIsError ==
  \A i \in DOMAIN inv :
    NonJsonSuccess(i) =>
      /\ inv[i].outcome.kind = "throw"
      /\ inv[i].outcome.error.name = "SyntaxError"
      /\ IsErrorResponse(inv[i].response,
                         "Error: " \o inv[i].outcome.error.message)
      /\ Len(inv[i].requests) = 1
      /\ inv[i].settled.body = <<>> =>
           inv[i].outcome.error.message = "Unexpected end of JSON input"

NonJsonSuccessIsErrorWitness ==
  \E i \in DOMAIN inv :
    /\ NonJsonSuccess(i)
    /\ inv[i].name = "get_system_health"
    /\ inv[i].settled = Response(204, BodyEmpty)
    /\ Len(inv[i].requests) = 1
    /\ IsErrorResponse(inv[i].response, "Error: Unexpected end of JSON input")

\* the client methods the dispatcher calls
BoundMethods == {handleToolCallCases[k].method : k \in 1..Len(handleToolCallCases)}

\* the client methods that post
PostingMethods ==
  {EndpointMethods[k].name : k \in {j \in 1..Len(EndpointMethods) :
                                      EndpointMethods[j].verb = "POST"}}

\* the tables alone: translateComment is the one method that posts, and no
\* case of the dispatcher calls it or any method that is not a GET
DispatcherReadOnly ==
  /\ PostingMethods = {"translateComment"}
  /\ BoundMethods \cap PostingMethods = {}
  /\ \A m \in BoundMethods : Method(m).verb = "GET"

\* C29: whatever tool is called with whatever arguments, in whatever order,
\* every request the server sends is a GET without a body: translateComment,
\* the one client method that posts, is called by no case of the dispatcher.
AllRequestsAreGet ==
  /\ DispatcherReadOnly
  /\ \A i \in DOMAIN inv :
       \A k \in 1..Len(inv[i].requests) :
         /\ inv[i].requests[k].method = "GET"
         /\ inv[i].requests[k].body = Undefined

\* get_message_comments, the tool next to the translation endpoint, answered
\* after one GET, an earlier call having been served
AllRequestsAreGetWitness ==
  \E i \in Done :
    /\ inv[i].name = "get_message_comments"
    /\ inv[i].args.t = "object"
    /\ Len(inv[i].requests) = 1
    /\ inv[i].requests[1].method = "GET"
    /\ inv[i].requests[1].path = "/api/social-graph/messages/0/comments"
    /\ proc.served > 0

\* the place of a field among the path arguments of a case, 0 if it has none
PathPlace(c, field) ==
  IF field \in Range(c.positional)
  THEN CHOOSE p \in 1..Len(c.positional) : c.positional[p] = field
  ELSE 0

\* the tables alone: every property a descriptor declares is either a path
\* argument of the tool's case, with a hole for it in the path template, or
\* a query field the case passes under its own name (query as q) to a
\* method that forwards its params
DeclaredAreBound ==
  \A name \in Labels :
    LET c == SelectedCase(name)
        e == Method(c.method)
    IN \A f \in Range(Descriptor(name).properties) :
         \/ /\ PathPlace(c, f) > 0
            /\ \E h \in 1..Len(e.path) : e.path[h].hole = PathPlace(c, f)
         \/ /\ c.hasParams
            /\ e.passesParams
            /\ \E j \in 1..Len(c.params) : c.params[j] = <<ParamName(f), f>>

\* C30: for every tool, a declared property that the bag gives a value other
\* than undefined and null is in the request: as the query parameter of its
\* name (query as q) with the value as its text, or as the text filling its
\* hole of the path.
NoDeclaredArgumentDropped ==
  /\ DeclaredAreBound
  /\ \A i \in DOMAIN inv :
       Dispatched(i) =>
         LET bag == inv[i].args.o
             c == SelectedCase(inv[i].name)
             e == Method(c.method)
             r == inv[i].requests[1]
         IN \A f \in Fields(bag) \cap Range(Descriptor(inv[i].name).properties) :
              Lookup(bag, f).t \notin {"undefined", "null"} =>
                \/ \E j \in 1..Len(r.query) :
                     r.query[j] = Field(ParamName(f), Verbatim(Lookup(bag, f)))
                \/ /\ PathPlace(c, f) > 0
                   /\ \E h \in 1..Len(e.path) : e.path[h].hole = PathPlace(c, f)
                   /\ r.path =
                        Interpolate(e.path,
                                    [j \in 1..Len(c.positional) |->
                                       Arg(inv[i].args, c.positional[j])])

\* get_entity with source and entity_id in the path and include_linked,
\* given as false, in the query
NoDeclaredArgumentDroppedWitness ==
  \E i \in Done :
    /\ inv[i].name = "get_entity"
    /\ inv[i].args = BagEntity
    /\ inv[i].requests[1].path = "/api/entities/curated/Q12345"
    /\ inv[i].requests[1].query = <<Field("include_linked", "false")>>
====
